---- MODULE Spec2Model ----
(***************************************************************************)
(* Chunked file transfer of workerchat-with-E2EE.                          *)
(*                                                                         *)
(* The module holds several state machines over one set of variables; each *)
(* specification runs one of them and leaves the others' variables at      *)
(* their initial values:                                                   *)
(*   SpecFT     src/src/FileTransferManager.ts: the concurrent sender, the *)
(*              receiver and its reassembly, joined by message sets        *)
(*   SpecAck    src/unnamed/part_003: the acknowledgment-based sender      *)
(*   SpecResume src/precise_resume.md: recovery after a pause, from the    *)
(*              status query to the end of the ordinary sending            *)
(*   SpecLoss   src/unnamed/part_007: the retransmission rounds that       *)
(*              follow the sending                                         *)
(*   SpecMock   MockResumeTransferManager of src/resume_transfer_fix.md    *)
(*   SpecRetry  SpecMock with failed transfers and retryTransfer           *)
(*   SpecCancel SpecFT with cancelTransfer on either endpoint              *)
(*   SpecFTLive SpecFT with the sender's steps scheduled fairly            *)
(*   SpecConc   src/test-concurrent-transfer.js: the workers of            *)
(*              ConcurrentTransferManager and its concurrency controller   *)
(*   SpecOffer  src/src/FileTransferManager.ts: the receiver's decision    *)
(*              on the transfer requests it is handed                      *)
(*   SpecChunkAck src/unnamed/part_003: the receiver's acknowledgment of   *)
(*              the chunk envelopes it is handed                           *)
(*   SpecRelay  src/src/ChatRoom.ts: the room that relays the envelopes    *)
(*              between the connections of its users                       *)
(*   SpecResumeLive SpecResume with the 5 s timer of the status query      *)
(*              taken as fair                                              *)
(*   SpecMonitor src/test-concurrent-transfer.js: the bandwidth monitor    *)
(*              handed throughput samples                                  *)
(*   SpecLifecycle SpecCancel on short payloads, or the stored-upload path *)
(*              of the room with its purge timer, scheduled fairly         *)
(*   SpecRegister src/src/ChatRoom.ts: handleRegister split at its await,  *)
(*              against the close event of the connection                  *)
(***************************************************************************)
EXTENDS Integers, Sequences, FiniteSets, TLC

(***************************************************************************)
(* Bounds of the model.                                                    *)
(***************************************************************************)
\* longest payload, in bytes
MaxLen == 3
\* largest declared chunk length, in bytes
MaxChunkSize == 2
\* reassemblies of one transfer that may await their digest at once
MaxAssemblies == 2
\* chunk envelopes not built by the send session that reach the receiver
MaxForeign == 1
\* largest declared chunk count of the acknowledgment-based sender
MaxAckChunks == 2
\* largest declared chunk count of a resumed transfer
MaxRcChunks == 6
\* transfers of MockResumeTransferManager and their largest chunk count
MaxTransfers == 2
MaxMockChunks == 2
\* connections the room may hold at once
MaxConns == 3
\* largest chunk count of a transfer of ConcurrentTransferManager
MaxCcChunks == 9
\* transfer requests one receiver is handed
MaxRequests == 2
\* chunk envelopes the acknowledging receiver is handed
MaxEnvelopes == 3
\* throughput samples the bandwidth monitor is handed
MaxSamples == 11
\* longest payload of the transfers whose sessions are followed to their end
MaxLifeLen == 2
\* purge timers of one stored upload that may be pending at once
MaxPurgeTimers == 2
\* handleRegister calls that may await extractUserProfile at once
MaxRegistering == 2

(***************************************************************************)
(* Program constants.                                                      *)
(***************************************************************************)
\* FileTransferManager.ts: const maxConcurrentChunks = 2
maxConcurrentChunks == 2
\* part_003: const maxPendingChunks = 1, const maxRetries = 3
maxPendingChunks == 1
maxRetries == 3
\* part_007: const maxRetransmissionRounds = 5, const batchSize = 5
maxRetransmissionRounds == 5
batchSize == 5
\* calculateOptimalChunkSize: const maxSafeMessageSize = 750 * 1024
maxSafeMessageSize == 750 * 1024
\* ChatRoom.handleFileTransferChunk: const maxChunkSize = 500 * 1024 * 1024
maxChunkSize == 500 * 1024 * 1024
\* the ceiling of the earlier ChatRoom in the same file: 128 * 1024
oldMaxChunkSize == 128 * 1024
\* ConcurrentTransferManager.concurrencyController and bandwidthMonitor
minConcurrency == 2
maxConcurrency == 20
initialConcurrency == 8
maxHistorySize == 10

Min(a, b) == IF a < b THEN a ELSE b

\* the elements of a sequence
Range(s) == {s[i] : i \in 1..Len(s)}

\* Math.ceil(a / b) for a >= 0, b > 0
CeilDiv(a, b) == (a + b - 1) \div b

\* the payloads of the model: for each length two byte patterns, one with a
\* different byte at every position, one of 255s
PatternByte(k) == (k * 151 + 77) % 256
Payloads(n) ==
    UNION {{[k \in 1..len |-> PatternByte(k)], [k \in 1..len |-> 255]} : len \in 0..n}

(***************************************************************************)
(* Base64.  A string is a sequence of codes: 0..63 are the alphabet's      *)
(* sextets, 64 is the padding character '='.                               *)
(***************************************************************************)
B64Pad == 64

\* btoa on one group of 1..3 bytes
EncodeGroup(g) ==
    LET n == g[1] * 65536
             + (IF Len(g) >= 2 THEN g[2] * 256 ELSE 0)
             + (IF Len(g) >= 3 THEN g[3] ELSE 0)
        s1 == n \div 262144
        s2 == (n \div 4096) % 64
        s3 == (n \div 64) % 64
        s4 == n % 64
    IN  IF Len(g) = 3 THEN <<s1, s2, s3, s4>>
        ELSE IF Len(g) = 2 THEN <<s1, s2, s3, B64Pad>>
        ELSE <<s1, s2, B64Pad, B64Pad>>

RECURSIVE btoa(_)
btoa(bytes) ==
    IF Len(bytes) = 0 THEN <<>>
    ELSE IF Len(bytes) <= 3 THEN EncodeGroup(bytes)
    ELSE EncodeGroup(SubSeq(bytes, 1, 3)) \o btoa(SubSeq(bytes, 4, Len(bytes)))

\* String.fromCharCode over the bytes, then btoa
arrayBufferToBase64(uint8Array) == btoa(uint8Array)

\* atob first removes one or two trailing '=' of a string whose length is a
\* multiple of four
StripPad(s) ==
    IF Len(s) > 0 /\ Len(s) % 4 = 0 /\ s[Len(s)] = B64Pad
    THEN IF s[Len(s) - 1] = B64Pad THEN SubSeq(s, 1, Len(s) - 2)
         ELSE SubSeq(s, 1, Len(s) - 1)
    ELSE s

\* atob throws on a length of 1 mod 4 and on any character outside the alphabet
atobValid(base64) ==
    LET t == StripPad(base64)
    IN  /\ Len(t) % 4 # 1
        /\ \A i \in 1..Len(t) : t[i] \in 0..63

\* the bytes of one group of 2..4 sextets; leftover bits are discarded
DecodeGroup(q) ==
    LET n == q[1] * 262144 + q[2] * 4096
             + (IF Len(q) >= 3 THEN q[3] * 64 ELSE 0)
             + (IF Len(q) >= 4 THEN q[4] ELSE 0)
        b1 == n \div 65536
        b2 == (n \div 256) % 256
        b3 == n % 256
    IN  IF Len(q) = 4 THEN <<b1, b2, b3>>
        ELSE IF Len(q) = 3 THEN <<b1, b2>>
        ELSE <<b1>>

RECURSIVE atobBytes(_)
atobBytes(t) ==
    IF Len(t) = 0 THEN <<>>
    ELSE IF Len(t) <= 4 THEN DecodeGroup(t)
    ELSE DecodeGroup(SubSeq(t, 1, 4)) \o atobBytes(SubSeq(t, 5, Len(t)))

\* atob, then charCodeAt per character
base64ToArrayBuffer(base64) == atobBytes(StripPad(base64))

(***************************************************************************)
(* Digest.  calculateMD5FromBuffer is crypto.subtle.digest('SHA-256') in   *)
(* hex.  SHA-256 is modelled as collision-free: the digest of a buffer is  *)
(* the hex string (a sequence of nibbles) of the buffer's own bytes.       *)
(***************************************************************************)
RECURSIVE calculateMD5FromBuffer(_)
calculateMD5FromBuffer(buffer) ==
    IF Len(buffer) = 0 THEN <<>>
    ELSE <<Head(buffer) \div 16, Head(buffer) % 16>>
         \o calculateMD5FromBuffer(Tail(buffer))

(***************************************************************************)
(* Segmentation (sendSingleChunk) and reassembly (assembleReceivedFile).   *)
(***************************************************************************)
\* file.slice(start, end) with start = chunkIndex * chunkSize and
\* end = Math.min(start + chunkSize, file.size); chunkIndex is 0-based
SliceEnd(file, chunkSz, chunkIndex) ==
    Min(chunkIndex * chunkSz + chunkSz, Len(file))

FileSlice(file, chunkSz, chunkIndex) ==
    SubSeq(file, chunkIndex * chunkSz + 1, SliceEnd(file, chunkSz, chunkIndex))

\* the chunkData of the envelope of chunk chunkIndex
ChunkData(file, chunkSz, chunkIndex) ==
    arrayBufferToBase64(FileSlice(file, chunkSz, chunkIndex))

\* Math.ceil(file.size / optimalChunkSize)
TotalChunks(file, chunkSz) == CeilDiv(Len(file), chunkSz)

\* the loop of assembleReceivedFile throws when an index has no entry or an
\* empty string (!base64Data), and when atob rejects the data
AssembleThrows(chunks, total) ==
    \E i \in 0..(total - 1) :
        \/ i \notin DOMAIN chunks
        \/ chunks[i] = <<>>
        \/ ~atobValid(chunks[i])

\* a reassembly that walks the indices from the last to the first
RECURSIVE ConcatDescending(_, _)
ConcatDescending(chunks, total) ==
    IF total = 0 THEN <<>>
    ELSE base64ToArrayBuffer(chunks[total - 1]) \o ConcatDescending(chunks, total - 1)

\* the decoded chunks 0..total-1 concatenated in index order
RECURSIVE Concat(_, _)
Concat(chunks, total) ==
    IF total = 0 THEN <<>>
    ELSE Concat(chunks, total - 1) \o base64ToArrayBuffer(chunks[total - 1])

(***************************************************************************)
(* State.                                                                  *)
(***************************************************************************)
VARIABLES
    \* --- FileTransferManager.ts, sending endpoint ---
    file,             \* the payload handed to initiateFileTransfer (bytes)
    chunkSize,        \* the chunk length declared in the request
    sPc,              \* "new" | "requested" | "sending" | "settled" | "rejected"
    sActive,          \* the send session is in activeTransfers
    sStatus,          \* session.status: "none" (undefined) | "waiting_confirmation"
    nextChunkIndex,   \* startFileSending: let nextChunkIndex
    sendQueue,        \* startFileSending: sendQueue (indices being sent)
    completedChunks,  \* startFileSending: completedChunks
    hasError,         \* startFileSending: let hasError
    workerPc,         \* per sendChunkWorker: "idle" | "reading" | "sent" | "loop" | "done"
    workerChunk,      \* per sendChunkWorker: its const chunkIndex
    sProgress,        \* last onTransferProgress(.., 'send') as num/den
    sComplete,        \* the sender's onTransferComplete calls, in order
    \* --- the relay channel, as the client sees it ---
    reqNet,           \* a fileTransferRequest is on its way
    respNet,          \* fileTransferResponse messages on their way (accepted flags)
    chunkNet,         \* indices of the fileChunk envelopes the sender has sent
    confNet,          \* fileTransferConfirmation messages on their way (success flags)
    \* --- FileTransferManager.ts, receiving endpoint ---
    rActive,          \* the receive session is in activeTransfers
    receivedChunks,   \* session.receivedChunks: chunkIndex -> chunkData
    assembling,       \* fileData of each assembleReceivedFile awaiting its digest
    rProgress,        \* last onTransferProgress(.., 'receive') as num/den
    rComplete,        \* the receiver's onTransferComplete calls, in order
    filesReceived,    \* the files handed to onFileReceived, in order
    foreignSeen,      \* history: number of chunks handled that the sender did not build
    mismatched,       \* history: a reassembly failed its digest comparison
    \* --- part_003, startFileSending of the acknowledgment-based sender ---
    aTotal,           \* session.totalChunks
    aPc,              \* "loop" | "reading" | "buffer" | "delay" | "wait" | "done"
    aNext,            \* let nextChunkIndex
    aCur,             \* chunkToSend of the running iteration
    pendingChunks,    \* chunkIndex -> [retries, expired]; expired replaces
                      \* now - timestamp > chunkTimeout
    confirmedChunks,  \* confirmedChunks
    failedChunks,     \* failedChunks
    aHasError,        \* let hasError
    aProgress,        \* last onTransferProgress(.., 'send') as num/den
    aComplete,        \* the sender's onTransferComplete calls, in order
    aEnvelopes,       \* the fileChunk envelopes sent (their indices), in order
    aChunkNet,        \* envelopes on their way to the receiver
    aReceived,        \* indices stored by the receiver
    aAckNet,          \* fileChunkAck messages on their way: <<chunkIndex, success>>
    aConfNet,         \* a fileTransferConfirmation with success = true is on its way
    aConfirmed,       \* history: the sender was handed such a confirmation
    \* --- precise_resume.md and part_007: resume after a pause ---
    rcTotal,          \* transfer.totalChunks
    rcPausedAt,       \* history: the chunks the sender remembered sending when paused
    rcPc,             \* transfer.status: "paused" | "querying_status" | "sending" |
                      \* "checking_missing" | "retransmitting" | "final_check" |
                      \* "completed" | "failed"
    rcRecv,           \* the receiver's transfer.receivedChunks (its keys)
    rcSentSet,        \* transfer.sentChunkSet
    rcSentChunks,     \* transfer.sentChunks
    rcMissing,        \* transfer.missingChunks
    rcRound,          \* retransmissionRound
    rcReported,       \* missingChunks of the running round, as reported
    rcOffset,         \* retransmitMissingChunks: let i
    rcAttempted,      \* history: indices retransmitted since the last report
    rcSentOk,         \* history: those of them whose envelope was sent
    rcChan,           \* sender -> receiver, in order: chunk indices, -1 = status request
    rcResp,           \* fileTransferStatusResponse messages on their way
    \* --- resume_transfer_fix.md: MockResumeTransferManager ---
    isConnected,      \* this.isConnected
    activeTransfers,  \* transferId -> [status, isActive, sentChunks, totalChunks,
                      \* timers]; status "none" = not in the map; timers = the
                      \* setTimeout(sendNextChunk, 100) calls not yet fired
    \* --- FileTransferManager.ts: cancelTransfer ---
    cancelNet,        \* the fileTransferCancel messages sent, in order, each named
                      \* by the session type of its origin: "send" | "receive"
    \* --- ChatRoom.ts: the room that relays the envelopes ---
    users,            \* this.users: connection -> id of its user, "none" = no entry
    sessions,         \* this.sessions: the connections accepted and not closed
    fileTransfers,    \* this.fileTransfers: the fileIds of the stored uploads
    fileChunks,       \* this.fileChunks: fileId -> chunk indices stored
    roomPc,           \* "idle" | "received": a message event awaits its
                      \* listener | "handled": the listener has run
    lastFrom,         \* the connection of that event (0 = none)
    lastMsg,          \* the message of that event
    sendFails,        \* whether the write to the target's socket threw in that call
    delivered,        \* what that call wrote: a set of <<connection, message>>
    purgeTimers,      \* fileId -> the setTimeout calls of handleFileComplete
                      \* that have not fired
    registering,      \* the handleRegister calls that await extractUserProfile:
                      \* a set of <<connection, message>>
    closing,          \* the connections on which that call called close()
    \* ConcurrentTransferManager (test-concurrent-transfer.js)
    ccPc,             \* "new", "running" or "finished"
    ccTotal,          \* totalChunks of the simulated transfer
    ccNetSpeed,       \* the speed, in KB/s, the monitor measures in this run
    ccWorkers,        \* per worker: the index it transfers, -1 once it ended
    ccNext,           \* nextChunkIndex
    ccCompleted,      \* completedChunks
    ccHanded,         \* per index: how often getNextChunk returned it
    currentConcurrency,
    currentSpeed,
    speedHistory,
    speedLog,         \* every sample pushed, in arrival order
    ccResult,         \* completedChunks of the returned result, -1 before
    \* the receiving FileTransferManager and the requests it is handed
    rqIssued,         \* fileTransferRequest messages sent to it so far
    rqNet,            \* the requests on their way to it
    rqLog,            \* the requests handleTransferRequest has handled
    rqAsked,          \* confirm() dialogs shown: <<transferId, answer>>
    rqResponses,      \* fileTransferResponse messages it has sent
    rqSessions,       \* transferIds with a receive session in activeTransfers
    \* the receive session of part_003 and the chunk envelopes it is handed
    kSession,         \* the session is in activeTransfers
    kTotal,           \* metadata.totalChunks
    kStored,          \* the keys of session.receivedChunks
    kSent,            \* chunk envelopes sent to the receiver so far
    kNet,             \* the envelopes on their way
    kHandled,         \* the envelopes handleFileChunk found the session for
    kAcks,            \* the fileChunkAck messages the receiver has sent
    kAssembling       \* runs of assembleReceivedFile awaiting the digest

varsFT == <<file, chunkSize, sPc, sActive, sStatus, nextChunkIndex, sendQueue,
            completedChunks, hasError, workerPc, workerChunk, sProgress,
            sComplete, reqNet, respNet, chunkNet, confNet, rActive,
            receivedChunks, assembling, rProgress, rComplete, filesReceived,
            foreignSeen, mismatched>>

varsAck == <<aTotal, aPc, aNext, aCur, pendingChunks, confirmedChunks,
             failedChunks, aHasError, aProgress, aComplete, aEnvelopes,
             aChunkNet, aReceived, aAckNet, aConfNet, aConfirmed>>

varsRc == <<rcTotal, rcPausedAt, rcPc, rcRecv, rcSentSet, rcSentChunks,
            rcMissing, rcRound, rcReported, rcOffset, rcAttempted, rcSentOk,
            rcChan, rcResp>>

varsMock == <<isConnected, activeTransfers>>
varsCancel == <<cancelNet>>
roomState == <<users, sessions, fileTransfers, fileChunks>>
varsRelay == <<roomState, roomPc, lastFrom, lastMsg, sendFails, delivered,
               purgeTimers, registering, closing>>
varsConc == <<ccPc, ccTotal, ccNetSpeed, ccWorkers, ccNext, ccCompleted,
              ccHanded, currentConcurrency, currentSpeed, speedHistory,
              speedLog, ccResult>>

varsOffer == <<rqIssued, rqNet, rqLog, rqAsked, rqResponses, rqSessions>>

varsChunkAck == <<kSession, kTotal, kStored, kSent, kNet, kHandled, kAcks,
                  kAssembling>>

vars == <<varsFT, varsAck, varsRc, varsMock, varsCancel, varsRelay, varsConc,
          varsOffer, varsChunkAck>>

\* the variables of the other state machines, which a step of one leaves alone
notFT == <<varsAck, varsRc, varsMock, varsCancel, varsRelay, varsConc,
          varsOffer, varsChunkAck>>
notAck == <<varsFT, varsRc, varsMock, varsCancel, varsRelay, varsConc,
          varsOffer, varsChunkAck>>
notRc == <<varsFT, varsAck, varsMock, varsCancel, varsRelay, varsConc,
          varsOffer, varsChunkAck>>
notMock == <<varsFT, varsAck, varsRc, varsCancel, varsRelay, varsConc,
          varsOffer, varsChunkAck>>
notRelay == <<varsFT, varsAck, varsRc, varsMock, varsCancel, varsConc,
             varsOffer, varsChunkAck>>
notConc == <<varsFT, varsAck, varsRc, varsMock, varsCancel, varsRelay,
            varsOffer, varsChunkAck>>
notOffer == <<varsFT, varsAck, varsRc, varsMock, varsCancel, varsRelay,
             varsConc, varsChunkAck>>
notChunkAck == <<varsFT, varsAck, varsRc, varsMock, varsCancel, varsRelay,
                varsConc, varsOffer>>

(***************************************************************************)
(* FileTransferManager.ts                                                  *)
(***************************************************************************)
Workers == 1..maxConcurrentChunks

\* session.totalChunks / metadata.totalChunks and metadata.fileHash
totalChunks == TotalChunks(file, chunkSize)
expectedHash == calculateMD5FromBuffer(file)

\* chunk data a receiver may be handed that no send session built: the empty
\* string, a well-formed string and a string atob rejects
ForeignData == {<<>>, arrayBufferToBase64(<<255>>), <<B64Pad>>}

EmptyMap == [i \in {} |-> <<>>]

\* the progress shown before the first onTransferProgress call
NoProgress == [num |-> 0, den |-> 1]

\* no transfer of FileTransferManager.ts exists
IdleFT ==
    /\ cancelNet = <<>>
    /\ sPc = "new"
    /\ sActive = FALSE
    /\ sStatus = "none"
    /\ nextChunkIndex = 0
    /\ sendQueue = {}
    /\ completedChunks = {}
    /\ hasError = FALSE
    /\ workerPc = [w \in Workers |-> "idle"]
    /\ workerChunk = [w \in Workers |-> 0]
    /\ sProgress = NoProgress
    /\ sComplete = <<>>
    /\ reqNet = FALSE
    /\ respNet = <<>>
    /\ chunkNet = {}
    /\ confNet = <<>>
    /\ rActive = FALSE
    /\ receivedChunks = EmptyMap
    /\ assembling = <<>>
    /\ rProgress = NoProgress
    /\ rComplete = <<>>
    /\ filesReceived = <<>>
    /\ foreignSeen = 0
    /\ mismatched = FALSE

\* startFileSending of part_003 has not run
IdleAck ==
    /\ aPc = "done"
    /\ aNext = 0
    /\ aCur = 0
    /\ pendingChunks = EmptyMap
    /\ confirmedChunks = {}
    /\ failedChunks = {}
    /\ aHasError = FALSE
    /\ aProgress = NoProgress
    /\ aComplete = <<>>
    /\ aEnvelopes = <<>>
    /\ aChunkNet = {}
    /\ aReceived = {}
    /\ aAckNet = {}
    /\ aConfNet = FALSE
    /\ aConfirmed = FALSE

\* no transfer is being resumed
IdleRc ==
    /\ rcTotal = 0
    /\ rcPausedAt = 0
    /\ rcPc = "completed"
    /\ rcRecv = {}
    /\ rcSentSet = {}
    /\ rcSentChunks = 0
    /\ rcMissing = {}
    /\ rcRound = 0
    /\ rcReported = <<>>
    /\ rcOffset = 0
    /\ rcAttempted = {}
    /\ rcSentOk = {}
    /\ rcChan = <<>>
    /\ rcResp = <<>>

\* a MockResumeTransferManager as constructed
Transfers == 1..MaxTransfers

NoTransfer == [status |-> "none", isActive |-> FALSE, sentChunks |-> 0,
               totalChunks |-> 0, timers |-> 0, closures |-> FALSE]

IdleMock ==
    /\ isConnected = FALSE
    /\ activeTransfers = [t \in Transfers |-> NoTransfer]

\* the room: connections, user ids, transfer ids and upload ids of the model
Conns == 1..MaxConns
Ids == {"u1", "u2"}
TIds == {"t1", "t2"}
FileIds == {"f1"}

\* a message with every field undefined; chunkData stands for the length of
\* the string (-1 = undefined), fileSize and chunkSize for the fields of
\* metadata (fileSize -1 = no metadata), publicKey for the user id that
\* extractUserProfile reads from the key ("bad" = no PGP key)
Blank == [type |-> "none", transferId |-> "undefined",
          targetUserId |-> "undefined", senderId |-> "undefined",
          chunkIndex |-> -1, chunkData |-> -1, isLast |-> "undefined",
          requireAck |-> "undefined", accepted |-> "undefined",
          success |-> "undefined", fileSize |-> -1, chunkSize |-> 0,
          fileId |-> "undefined", message |-> "undefined",
          publicKey |-> "undefined"]

\* a ChatRoom as constructed
IdleRelay ==
    /\ users = [c \in Conns |-> "none"]
    /\ sessions = {}
    /\ fileTransfers = {}
    /\ fileChunks = [f \in {} |-> {}]
    /\ roomPc = "idle"
    /\ lastFrom = 0
    /\ lastMsg = Blank
    /\ sendFails = FALSE
    /\ delivered = {}
    /\ purgeTimers = [f \in FileIds |-> 0]
    /\ registering = {}
    /\ closing = {}

\* a ConcurrentTransferManager as constructed, no transfer simulated
IdleConc ==
    /\ ccPc = "new"
    /\ ccWorkers = <<>>
    /\ ccNext = 0
    /\ ccCompleted = 0
    /\ ccHanded = <<>>
    /\ currentConcurrency = initialConcurrency
    /\ currentSpeed = 0
    /\ speedHistory = <<>>
    /\ speedLog = <<>>
    /\ ccResult = -1

\* a FileTransferManager as constructed, no request sent to it
IdleOffer ==
    /\ rqIssued = 0
    /\ rqNet = {}
    /\ rqLog = <<>>
    /\ rqAsked = {}
    /\ rqResponses = <<>>
    /\ rqSessions = {}

\* no receive session of the acknowledging receiver
IdleChunkAck ==
    /\ kSession = FALSE
    /\ kTotal = 0
    /\ kStored = {}
    /\ kSent = 0
    /\ kNet = {}
    /\ kHandled = <<>>
    /\ kAcks = <<>>
    /\ kAssembling = 0

InitFT ==
    /\ file \in Payloads(MaxLen)
    /\ chunkSize \in 1..MaxChunkSize
    /\ IdleFT
    /\ aTotal = 0
    /\ IdleAck
    /\ IdleRc
    /\ IdleMock
    /\ IdleRelay
    /\ ccTotal = 0
    /\ ccNetSpeed = 0
    /\ IdleConc
    /\ IdleOffer
    /\ IdleChunkAck

senderLocals == <<nextChunkIndex, sendQueue, completedChunks, hasError,
                  workerPc, workerChunk>>
receiverVars == <<rActive, receivedChunks, assembling, rProgress, rComplete,
                  filesReceived, foreignSeen, mismatched>>

\* initiateFileTransfer: create the send session and send the request
InitiateFileTransfer ==
    /\ sPc = "new"
    /\ sPc' = "requested"
    /\ sActive' = TRUE
    /\ reqNet' = TRUE
    /\ UNCHANGED <<file, chunkSize, sStatus, senderLocals, sProgress, sComplete,
                   respNet, chunkNet, confNet, receiverVars>>
    /\ UNCHANGED notFT

\* handleTransferRequest: accept is isMediaFile(fileType) or the user's
\* confirm(); one response is sent and the session exists iff accepted
HandleTransferRequest ==
    /\ reqNet
    /\ reqNet' = FALSE
    /\ \E accept \in BOOLEAN :
        /\ respNet' = Append(respNet, accept)
        /\ rActive' = accept
    /\ receivedChunks' = EmptyMap
    /\ UNCHANGED <<file, chunkSize, sPc, sActive, sStatus, senderLocals,
                   sProgress, sComplete, chunkNet, confNet, assembling,
                   rProgress, rComplete, filesReceived, foreignSeen, mismatched>>
    /\ UNCHANGED notFT

\* startFileSending up to its first suspension: each sendChunkWorker started
\* in turn runs to its first await, taking an index while one is left
StartWorkers ==
    /\ nextChunkIndex' = Min(totalChunks, maxConcurrentChunks)
    /\ sendQueue' = 0..(Min(totalChunks, maxConcurrentChunks) - 1)
    /\ workerPc' = [w \in Workers |->
                        IF w - 1 < totalChunks THEN "reading" ELSE "done"]
    /\ workerChunk' = [w \in Workers |-> IF w - 1 < totalChunks THEN w - 1 ELSE 0]
    /\ UNCHANGED <<completedChunks, hasError>>

\* a handleTransferResponse that starts the sending on any response
HandleTransferResponseAny ==
    /\ respNet # <<>>
    /\ respNet' = Tail(respNet)
    /\ IF ~sActive \/ sPc # "requested"
       THEN UNCHANGED <<sPc, sActive, senderLocals, sComplete>>
       ELSE /\ sPc' = "sending"
            /\ StartWorkers
            /\ UNCHANGED <<sActive, sComplete>>
    /\ UNCHANGED <<file, chunkSize, sStatus, sProgress, reqNet, chunkNet,
                   confNet, receiverVars>>
    /\ UNCHANGED notFT

\* handleTransferResponse
HandleTransferResponse ==
    /\ respNet # <<>>
    /\ respNet' = Tail(respNet)
    /\ IF ~sActive \/ sPc # "requested"
       THEN UNCHANGED <<sPc, sActive, senderLocals, sComplete>>
       ELSE IF Head(respNet)
       THEN /\ sPc' = "sending"
            /\ StartWorkers
            /\ UNCHANGED <<sActive, sComplete>>
       ELSE /\ sPc' = "rejected"
            /\ sActive' = FALSE
            /\ sComplete' = Append(sComplete, FALSE)
            /\ UNCHANGED senderLocals
    /\ UNCHANGED <<file, chunkSize, sStatus, sProgress, reqNet, chunkNet,
                   confNet, receiverVars>>
    /\ UNCHANGED notFT

\* sendChunkWorker: the head of the while loop, after a completed send
WorkerLoop(w) ==
    /\ sPc = "sending"
    /\ workerPc[w] = "loop"
    /\ ~(Cardinality(sendQueue) >= 2 /\ ~hasError)
    /\ IF nextChunkIndex < totalChunks /\ ~hasError
       THEN /\ workerChunk' = [workerChunk EXCEPT ![w] = nextChunkIndex]
            /\ nextChunkIndex' = nextChunkIndex + 1
            /\ sendQueue' = sendQueue \cup {nextChunkIndex}
            /\ workerPc' = [workerPc EXCEPT ![w] = "reading"]
       ELSE /\ workerPc' = [workerPc EXCEPT ![w] = "done"]
            /\ UNCHANGED <<workerChunk, nextChunkIndex, sendQueue>>
    /\ UNCHANGED <<file, chunkSize, sPc, sActive, sStatus, completedChunks,
                   hasError, sProgress, sComplete, reqNet, respNet, chunkNet,
                   confNet, receiverVars>>
    /\ UNCHANGED notFT

\* sendSingleChunk: reader.onload / reader.onerror.  ok is false when the
\* FileReader fails or websocket.send throws; the promise is rejected then,
\* and also when hasError is already set, and the worker's catch runs
ReaderDone(w) ==
    /\ sPc = "sending"
    /\ workerPc[w] = "reading"
    /\ \E ok \in BOOLEAN :
        IF ok /\ ~hasError
        THEN /\ chunkNet' = chunkNet \cup {workerChunk[w]}
             /\ workerPc' = [workerPc EXCEPT ![w] = "sent"]
             /\ UNCHANGED <<sendQueue, hasError>>
        ELSE /\ sendQueue' = sendQueue \ {workerChunk[w]}
             /\ hasError' = TRUE
             /\ workerPc' = [workerPc EXCEPT ![w] = "done"]
             /\ UNCHANGED chunkNet
    /\ UNCHANGED <<file, chunkSize, sPc, sActive, sStatus, nextChunkIndex,
                   completedChunks, workerChunk, sProgress, sComplete, reqNet,
                   respNet, confNet, receiverVars>>
    /\ UNCHANGED notFT

\* the 1 ms timer of sendSingleChunk resolves the promise; the worker records
\* the chunk as completed and reports progress
SendResolved(w) ==
    /\ sPc = "sending"
    /\ workerPc[w] = "sent"
    /\ sendQueue' = sendQueue \ {workerChunk[w]}
    /\ completedChunks' = completedChunks \cup {workerChunk[w]}
    /\ sProgress' = [num |-> Cardinality(completedChunks') * 100,
                     den |-> totalChunks]
    /\ workerPc' = [workerPc EXCEPT ![w] = "loop"]
    /\ UNCHANGED <<file, chunkSize, sPc, sActive, sStatus, nextChunkIndex,
                   hasError, workerChunk, sComplete, reqNet, respNet, chunkNet,
                   confNet, receiverVars>>
    /\ UNCHANGED notFT

\* startFileSending after Promise.allSettled(promises), with its finally
AllSettled ==
    /\ sPc = "sending"
    /\ \A w \in Workers : workerPc[w] = "done"
    /\ sPc' = "settled"
    /\ IF hasError
       THEN /\ sComplete' = Append(sComplete, FALSE)
            /\ UNCHANGED <<sStatus, sProgress>>
       ELSE IF Cardinality(completedChunks) = totalChunks
       THEN /\ sStatus' = "waiting_confirmation"
            /\ sProgress' = [num |-> 100, den |-> 1]
            /\ UNCHANGED sComplete
       ELSE /\ sComplete' = Append(sComplete, FALSE)
            /\ UNCHANGED <<sStatus, sProgress>>
    /\ sActive' = FALSE
    /\ UNCHANGED <<file, chunkSize, senderLocals, reqNet, respNet, chunkNet,
                   confNet, receiverVars>>
    /\ UNCHANGED notFT

\* a handleTransferConfirmation that does not look for the session
HandleTransferConfirmationAny ==
    /\ confNet # <<>>
    /\ confNet' = Tail(confNet)
    /\ sComplete' = Append(sComplete, Head(confNet))
    /\ UNCHANGED <<file, chunkSize, sPc, sActive, sStatus, senderLocals,
                   sProgress, reqNet, respNet, chunkNet, receiverVars>>
    /\ UNCHANGED notFT

\* handleTransferConfirmation
HandleTransferConfirmation ==
    /\ confNet # <<>>
    /\ confNet' = Tail(confNet)
    /\ IF ~sActive
       THEN UNCHANGED sComplete
       ELSE sComplete' = Append(sComplete, Head(confNet))
    /\ UNCHANGED <<file, chunkSize, sPc, sActive, sStatus, senderLocals,
                   sProgress, reqNet, respNet, chunkNet, receiverVars>>
    /\ UNCHANGED notFT

\* the catch and finally of assembleReceivedFile
AssemblyFailed ==
    /\ confNet' = Append(confNet, FALSE)
    /\ rComplete' = Append(rComplete, FALSE)
    /\ rActive' = FALSE
    /\ UNCHANGED filesReceived

\* a handleFileChunk that counts receipts instead of reading the map's size
ReceiveChunkCounting(chunkIndex, chunkData) ==
    /\ rActive
    /\ LET stored == [i \in DOMAIN receivedChunks \cup {chunkIndex} |->
                          IF i = chunkIndex THEN chunkData ELSE receivedChunks[i]]
           size == Cardinality(DOMAIN stored)
       IN  /\ receivedChunks' = stored
           /\ rProgress' = [num |-> rProgress.num
                                      + 100,
                            den |-> totalChunks]
           /\ IF size # totalChunks
              THEN UNCHANGED <<confNet, rComplete, rActive, filesReceived,
                               assembling>>
              ELSE IF AssembleThrows(stored, totalChunks)
              THEN AssemblyFailed /\ UNCHANGED assembling
              ELSE /\ Len(assembling) < MaxAssemblies
                   /\ assembling' = Append(assembling, Concat(stored, totalChunks))
                   /\ UNCHANGED <<confNet, rComplete, rActive, filesReceived>>

\* a handleFileChunk that starts the reassembly on the envelope of the last
\* index instead of on the map's size
ReceiveChunkOnLast(chunkIndex, chunkData) ==
    /\ rActive
    /\ LET stored == [i \in DOMAIN receivedChunks \cup {chunkIndex} |->
                          IF i = chunkIndex THEN chunkData ELSE receivedChunks[i]]
           size == Cardinality(DOMAIN stored)
       IN  /\ receivedChunks' = stored
           /\ rProgress' = [num |-> size * 100, den |-> totalChunks]
           /\ IF chunkIndex # totalChunks - 1
              THEN UNCHANGED <<confNet, rComplete, rActive, filesReceived,
                               assembling>>
              ELSE IF AssembleThrows(stored, totalChunks)
              THEN AssemblyFailed /\ UNCHANGED assembling
              ELSE /\ Len(assembling) < MaxAssemblies
                   /\ assembling' = Append(assembling, Concat(stored, totalChunks))
                   /\ UNCHANGED <<confNet, rComplete, rActive, filesReceived>>

\* handleFileChunk, with assembleReceivedFile up to its await of the digest
ReceiveChunk(chunkIndex, chunkData) ==
    /\ rActive
    /\ LET stored == [i \in DOMAIN receivedChunks \cup {chunkIndex} |->
                          IF i = chunkIndex THEN chunkData ELSE receivedChunks[i]]
           size == Cardinality(DOMAIN stored)
       IN  /\ receivedChunks' = stored
           /\ rProgress' = [num |-> size * 100, den |-> totalChunks]
           /\ IF size # totalChunks
              THEN UNCHANGED <<confNet, rComplete, rActive, filesReceived,
                               assembling>>
              ELSE IF AssembleThrows(stored, totalChunks)
              THEN AssemblyFailed /\ UNCHANGED assembling
              ELSE /\ Len(assembling) < MaxAssemblies
                   /\ assembling' = Append(assembling, Concat(stored, totalChunks))
                   /\ UNCHANGED <<confNet, rComplete, rActive, filesReceived>>

\* a fileChunk envelope of the send session reaches handleFileChunk; the
\* channel may deliver an envelope late and more than once
HandleFileChunk ==
    /\ \E chunkIndex \in chunkNet :
        ReceiveChunk(chunkIndex, ChunkData(file, chunkSize, chunkIndex))
    /\ UNCHANGED <<file, chunkSize, sPc, sActive, sStatus, senderLocals,
                   sProgress, sComplete, reqNet, respNet, chunkNet, foreignSeen,
                   mismatched>>
    /\ UNCHANGED notFT

\* handleFileChunk on an envelope for this transferId that the send session
\* did not build (damaged, or from another peer)
HandleForeignChunk ==
    /\ \E chunkIndex \in 0..totalChunks, chunkData \in ForeignData :
        ReceiveChunk(chunkIndex, chunkData)
    /\ foreignSeen < MaxForeign
    /\ foreignSeen' = foreignSeen + 1
    /\ UNCHANGED <<file, chunkSize, sPc, sActive, sStatus, senderLocals,
                   sProgress, sComplete, reqNet, respNet, chunkNet, mismatched>>
    /\ UNCHANGED notFT

\* assembleReceivedFile after its await of calculateMD5FromBuffer
DigestDone ==
    /\ assembling # <<>>
    /\ assembling' = Tail(assembling)
    /\ IF calculateMD5FromBuffer(Head(assembling)) # expectedHash
       THEN AssemblyFailed /\ mismatched' = TRUE
       ELSE /\ UNCHANGED mismatched
            /\ confNet' = Append(confNet, TRUE)
            /\ filesReceived' = Append(filesReceived, Head(assembling))
            /\ rComplete' = Append(rComplete, TRUE)
            /\ rActive' = FALSE
    /\ UNCHANGED <<file, chunkSize, sPc, sActive, sStatus, senderLocals,
                   sProgress, sComplete, reqNet, respNet, chunkNet,
                   receivedChunks, rProgress, foreignSeen>>
    /\ UNCHANGED notFT

NextFT ==
    \/ InitiateFileTransfer
    \/ HandleTransferRequest
    \/ HandleTransferResponse
    \/ \E w \in Workers : WorkerLoop(w)
    \/ \E w \in Workers : ReaderDone(w)
    \/ \E w \in Workers : SendResolved(w)
    \/ AllSettled
    \/ HandleTransferConfirmation
    \/ HandleFileChunk
    \/ HandleForeignChunk
    \/ DigestDone

SpecFT == InitFT /\ [][NextFT]_vars

(***************************************************************************)
(* Properties of FileTransferManager.ts (SpecFT).                          *)
(***************************************************************************)
\* C2: a send session that has sent every chunk and waits for confirmation
\* (status waiting_confirmation) reports success, onTransferComplete(id, true),
\* in the step that handles a fileTransferConfirmation with success = true.
C2_ConfirmationCompletes ==
    [][(/\ sStatus = "waiting_confirmation"
        /\ confNet # <<>>
        /\ Head(confNet)
        /\ confNet' = Tail(confNet))
       => sComplete' = Append(sComplete, TRUE)]_vars

\* the receiver's map holds exactly the chunks the send session built
C3_SenderChunksStored ==
    /\ DOMAIN receivedChunks = 0..(totalChunks - 1)
    /\ \A i \in DOMAIN receivedChunks :
           receivedChunks[i] = ChunkData(file, chunkSize, i)

\* C3: round trip.  Whatever the order and the repetitions in which the
\* chunks sliced by the sender were delivered, once indices 0..N-1 are stored
\* the reassembly does not throw and yields the original bytes; every
\* reassembly started from the sender's chunks alone is the original payload,
\* passes its digest and is handed over unchanged.
C3_RoundTrip ==
    /\ C3_SenderChunksStored =>
           /\ ~AssembleThrows(receivedChunks, totalChunks)
           /\ Concat(receivedChunks, totalChunks) = file
    /\ foreignSeen = 0 =>
           /\ \A i \in 1..Len(assembling) : assembling[i] = file
           /\ \A i \in 1..Len(filesReceived) : filesReceived[i] = file
           /\ ~mismatched
           /\ FALSE \notin Range(rComplete)

\* a payload of full length whose last chunk is short was reassembled from at
\* least two chunks and handed over
C3_Witness ==
    /\ foreignSeen = 0
    /\ Len(file) = MaxLen
    /\ totalChunks >= 2
    /\ Len(file) % chunkSize # 0
    /\ filesReceived = <<file>>

\* C4: a step of handleFileChunk on a chunk index that is already stored
\* leaves the size of receivedChunks unchanged and does not raise the
\* reported receive progress (the chunkData of the envelope handled is the
\* entry the map holds for the index after the step).
C4_DuplicateIdempotent ==
    [][\A chunkIndex \in DOMAIN receivedChunks \cap DOMAIN receivedChunks' :
           ReceiveChunk(chunkIndex, receivedChunks'[chunkIndex]) =>
               /\ Cardinality(DOMAIN receivedChunks')
                      = Cardinality(DOMAIN receivedChunks)
               /\ rProgress'.num <= rProgress.num]_vars

\* two reassemblies of the sender's chunks are pending: the second one was
\* started by the receipt of an index that was already stored
C4_Witness ==
    /\ foreignSeen = 0
    /\ Len(assembling) = 2
    /\ rProgress = [num |-> totalChunks * 100, den |-> totalChunks]

\* C8: the step in which a reassembled payload fails the comparison with the
\* declared digest reports failure at the receiver (onTransferComplete(id,
\* false)), sends a confirmation with success = false and hands no payload to
\* onFileReceived; from then on no payload of the transfer is handed over and
\* neither endpoint reports Completed (onTransferComplete(id, true)).
C8_MismatchFails ==
    [][/\ (~mismatched /\ mismatched') =>
              /\ rComplete' = Append(rComplete, FALSE)
              /\ confNet' = Append(confNet, FALSE)
              /\ filesReceived' = filesReceived
       /\ mismatched =>
              /\ filesReceived' = filesReceived
              /\ Range(rComplete') \subseteq Range(rComplete) \cup {FALSE}
              /\ Range(sComplete') \subseteq Range(sComplete) \cup {FALSE}]_vars

\* C14: in every reachable state of a receive session the number of stored
\* chunks is at most the declared total chunk count and the reported receive
\* progress (num / den, in percent) is at most 100.
C14_StoredWithinTotal ==
    /\ Cardinality(DOMAIN receivedChunks) <= totalChunks
    /\ rProgress.num <= 100 * rProgress.den

\* C15: a receipt starts the reassembly exactly when it leaves the stored map
\* with as many entries as the declared total; if then an index of
\* 0..totalChunks-1 is absent the reassembly aborts: failure is reported and
\* confirmed, the session ends, and no payload is assembled or handed over.
C15_ReassemblyTrigger ==
    [][\A chunkIndex \in DOMAIN receivedChunks' :
           ReceiveChunk(chunkIndex, receivedChunks'[chunkIndex]) =>
               LET size == Cardinality(DOMAIN receivedChunks')
                   started == assembling' # assembling
                   failed == /\ rComplete' = Append(rComplete, FALSE)
                             /\ confNet' = Append(confNet, FALSE)
                   missing == \E i \in 0..(totalChunks - 1) :
                                  i \notin DOMAIN receivedChunks'
               IN  /\ size # totalChunks =>
                          /\ assembling' = assembling
                          /\ rComplete' = rComplete
                          /\ confNet' = confNet
                   /\ (size = totalChunks /\ missing) =>
                          /\ failed
                          /\ ~rActive'
                          /\ assembling' = assembling
                          /\ filesReceived' = filesReceived
                   /\ (size = totalChunks /\ ~missing) =>
                          (started \/ failed)]_vars

\* an envelope with the index totalChunks brought the map to totalChunks
\* entries while an index below it was absent, and the reassembly failed
C15_Witness ==
    /\ totalChunks \in DOMAIN receivedChunks
    /\ Cardinality(DOMAIN receivedChunks) = totalChunks
    /\ totalChunks >= 2
    /\ rComplete = <<FALSE>>
    /\ confNet = <<FALSE>>
    /\ filesReceived = <<>>
    /\ assembling = <<>>
    /\ ~rActive

\* SpecFT with the scheduling the sending endpoint can rely on: its own file
\* reads, timers and promise continuations run, and a message the channel
\* holds for it is handed to it; nothing is assumed of the receiving peer
\* the send session has taken no chunk index and sent no chunk envelope
NothingSent ==
    /\ nextChunkIndex = 0
    /\ sendQueue = {}
    /\ completedChunks = {}
    /\ chunkNet = {}
    /\ \A w \in Workers : workerPc[w] = "idle"

\* C31: the request is sent by the one step that creates the session, which
\* is never repeated; until a response with accepted = true is handled, and
\* for ever once one with accepted = false is, the session has sent no
\* chunk; the step that handles accepted = false removes the session and
\* reports failure.
C31_NoChunkBeforeAccept ==
    /\ [](sPc \in {"new", "requested", "rejected"} => NothingSent)
    /\ [][/\ (reqNet' /\ ~reqNet) => (sPc = "new" /\ sPc' = "requested")
          /\ sPc' = "new" => sPc = "new"
          /\ (sPc = "requested" /\ sPc' = "sending")
                 => (respNet # <<>> /\ Head(respNet))
          /\ (sPc = "requested" /\ sActive /\ respNet # <<>>
                  /\ ~Head(respNet) /\ respNet' = Tail(respNet))
                 => /\ sPc' = "rejected"
                    /\ ~sActive'
                    /\ sComplete' = Append(sComplete, FALSE)
          /\ sPc = "rejected" => sPc' = "rejected"]_vars

\* a rejected transfer: the session removed, failure reported, nothing sent
C31_Witness ==
    /\ sPc = "rejected"
    /\ ~sActive
    /\ sComplete = <<FALSE>>
    /\ ~reqNet
    /\ respNet = <<>>
    /\ NothingSent

\* C36: the receive session hands at most one file to onFileReceived and
\* reports at most one outcome, each with its fileTransferConfirmation, also
\* when an envelope arrives again while the digest is awaited.
C36_DeliveredOnce ==
    /\ Len(filesReceived) <= 1
    /\ Len(rComplete) <= 1

SpecFTLive ==
    /\ InitFT
    /\ [][NextFT]_vars
    /\ \A w \in Workers :
        WF_vars(WorkerLoop(w)) /\ WF_vars(ReaderDone(w))
            /\ WF_vars(SendResolved(w))
    /\ WF_vars(AllSettled)
    /\ WF_vars(HandleTransferResponse)
    /\ WF_vars(HandleTransferConfirmation)

\* C22: every send session whose request was accepted eventually reports a
\* terminal outcome (onTransferComplete), whatever the peer and the channel
\* do, also when the final confirmation never arrives.
C22_SenderTerminates ==
    (sPc = "sending") ~> (sComplete # <<>>)

(***************************************************************************)
(* FileTransferManager.ts with cancelTransfer (SpecCancel).  The relay      *)
(* turns a fileTransferCancel into a fileTransferCancelNotification for    *)
(* the peer; FileTransferManager has no method that is handed one.         *)
(***************************************************************************)
\* cancelTransfer(transferId) on the sending endpoint
CancelTransfer ==
    /\ sActive
    /\ cancelNet' = Append(cancelNet, "send")
    /\ sActive' = FALSE
    /\ sComplete' = Append(sComplete, FALSE)
    /\ UNCHANGED <<file, chunkSize, sPc, sStatus, senderLocals, sProgress,
                   reqNet, respNet, chunkNet, confNet, receiverVars>>
    /\ UNCHANGED <<varsAck, varsRc, varsMock, varsRelay, varsConc, varsOffer,
                   varsChunkAck>>

\* cancelTransfer(transferId) on the receiving endpoint
ReceiverCancelTransfer ==
    /\ rActive
    /\ cancelNet' = Append(cancelNet, "receive")
    /\ rActive' = FALSE
    /\ rComplete' = Append(rComplete, FALSE)
    /\ UNCHANGED <<file, chunkSize, sPc, sActive, sStatus, senderLocals,
                   sProgress, sComplete, reqNet, respNet, chunkNet, confNet,
                   receivedChunks, assembling, rProgress, filesReceived,
                   foreignSeen, mismatched>>
    /\ UNCHANGED <<varsAck, varsRc, varsMock, varsRelay, varsConc, varsOffer,
                   varsChunkAck>>

NextCancel ==
    \/ NextFT
    \/ CancelTransfer
    \/ ReceiverCancelTransfer

SpecCancel == InitFT /\ [][NextCancel]_vars

\* C11: once the sending endpoint has cancelled the transfer, its session is
\* released and no sendChunkWorker sends a further fileChunk envelope, whatever
\* send is in flight.
C11_CancelStopsWorkers ==
    [][("send" \in Range(cancelNet))
           => (~sActive' /\ chunkNet' = chunkNet)]_vars

\* C23: the sending endpoint reports a terminal outcome of the transfer
\* (onTransferComplete) at most once, under every interleaving of
\* cancelTransfer, a failing send of a worker, a rejecting response and an
\* incoming confirmation.
C23_OutcomeReportedOnce ==
    Len(sComplete) <= 1

(***************************************************************************)
(* part_003: startFileSending with per-chunk acknowledgment.  Time is not  *)
(* measured: a pending chunk becomes expired at some moment after it was   *)
(* sent, and the 60 s limit of waitForCompletion may strike at any poll.   *)
(***************************************************************************)
InitAck ==
    /\ file = <<>>
    /\ chunkSize = 1
    /\ IdleFT
    /\ aTotal \in 1..MaxAckChunks
    /\ aPc = "loop"
    /\ aNext = 0
    /\ aCur = 0
    /\ pendingChunks = EmptyMap
    /\ confirmedChunks = {}
    /\ failedChunks = {}
    /\ aHasError = FALSE
    /\ aProgress = NoProgress
    /\ aComplete = <<>>
    /\ aEnvelopes = <<>>
    /\ aChunkNet = {}
    /\ aReceived = {}
    /\ aAckNet = {}
    /\ aConfNet = FALSE
    /\ aConfirmed = FALSE
    /\ IdleRc
    /\ IdleMock
    /\ IdleRelay
    /\ ccTotal = 0
    /\ ccNetSpeed = 0
    /\ IdleConc
    /\ IdleOffer
    /\ IdleChunkAck

ackNetVars == <<aChunkNet, aReceived, aAckNet, aConfNet, aConfirmed>>

\* handleChunkAck: pending.retries >= maxRetries + 1
RetriesExhaustedLate(retries) == retries >= maxRetries + 1

\* handleChunkAck: pending.retries >= maxRetries, read after pending.retries++
RetriesExhausted(retries) == retries >= maxRetries

\* handleChunkAck(chunkIndex, false) for every chunkIndex in failing, a set of
\* pending indices
FailChunks(failing) ==
    LET given == {c \in failing : RetriesExhausted(pendingChunks[c].retries + 1)}
    IN  /\ pendingChunks' =
               [c \in DOMAIN pendingChunks \ given |->
                    IF c \in failing
                    THEN [pendingChunks[c] EXCEPT !.retries = @ + 1]
                    ELSE pendingChunks[c]]
        /\ failedChunks' = failedChunks \cup given
        /\ aHasError' = (aHasError \/ given # {})
        /\ UNCHANGED <<confirmedChunks, aProgress>>

\* sendSingleChunk: websocket.send and pendingChunks.set, then resolve()
SendEnvelope ==
    /\ aEnvelopes' = Append(aEnvelopes, aCur)
    /\ aChunkNet' = aChunkNet \cup {aCur}
    /\ pendingChunks' =
           [c \in DOMAIN pendingChunks \cup {aCur} |->
                IF c = aCur THEN [retries |-> 0, expired |-> FALSE]
                ELSE pendingChunks[c]]
    /\ aPc' = "delay"

\* sendNextChunk: one pass of the while loop up to await sendSingleChunk; the
\* inner loop polls while pendingChunks.size >= maxPendingChunks
SendNextChunk ==
    /\ aPc = "loop"
    /\ IF aHasError \/ aNext >= aTotal
       THEN /\ aPc' = "wait"
            /\ UNCHANGED <<aNext, aCur>>
       ELSE /\ Cardinality(DOMAIN pendingChunks) < maxPendingChunks
            /\ \E chunkToSend \in
                   {c \in DOMAIN pendingChunks : pendingChunks[c].retries > 0}
                       \cup {aNext} :
                /\ aCur' = chunkToSend
                /\ aNext' = IF chunkToSend = aNext THEN aNext + 1 ELSE aNext
            /\ aPc' = "reading"
    /\ UNCHANGED <<aTotal, pendingChunks, confirmedChunks, failedChunks,
                   aHasError, aProgress, aComplete, aEnvelopes, ackNetVars>>
    /\ UNCHANGED notAck

\* sendSingleChunk: reader.onload / reader.onerror.  ok is false when the
\* FileReader fails or websocket.send throws; buffered is bufferedAmount >
\* 1 MB.  A rejection is caught by sendNextChunk, which sets hasError
ReaderLoaded ==
    /\ aPc = "reading"
    /\ \E ok \in BOOLEAN, buffered \in BOOLEAN :
        IF ok /\ ~aHasError
        THEN /\ IF buffered
                THEN /\ aPc' = "buffer"
                     /\ UNCHANGED <<aEnvelopes, aChunkNet, pendingChunks>>
                ELSE SendEnvelope
             /\ UNCHANGED aHasError
        ELSE /\ aHasError' = TRUE
             /\ aPc' = "wait"
             /\ UNCHANGED <<aEnvelopes, aChunkNet, pendingChunks>>
    /\ UNCHANGED <<aTotal, aNext, aCur, confirmedChunks, failedChunks,
                   aProgress, aComplete, aReceived, aAckNet, aConfNet,
                   aConfirmed>>
    /\ UNCHANGED notAck

\* waitForBuffer: bufferedAmount has fallen below 512 KB
BufferDrained ==
    /\ aPc = "buffer"
    /\ SendEnvelope
    /\ UNCHANGED <<aTotal, aNext, aCur, confirmedChunks, failedChunks,
                   aHasError, aProgress, aComplete, aReceived, aAckNet,
                   aConfNet, aConfirmed>>
    /\ UNCHANGED notAck

\* the delay of calculateDelay() after a sent chunk has passed
DelayDone ==
    /\ aPc = "delay"
    /\ aPc' = "loop"
    /\ UNCHANGED <<aTotal, aNext, aCur, pendingChunks, confirmedChunks,
                   failedChunks, aHasError, aProgress, aComplete, aEnvelopes,
                   ackNetVars>>
    /\ UNCHANGED notAck

\* chunkTimeout has passed since the chunk was sent; its timestamp is never
\* refreshed
Expire ==
    /\ aPc # "done"
    /\ \E c \in DOMAIN pendingChunks :
        /\ ~pendingChunks[c].expired
        /\ pendingChunks' = [pendingChunks EXCEPT ![c].expired = TRUE]
    /\ UNCHANGED <<aTotal, aPc, aNext, aCur, confirmedChunks, failedChunks,
                   aHasError, aProgress, aComplete, aEnvelopes, ackNetVars>>
    /\ UNCHANGED notAck

\* timeoutChecker: handleChunkAck(chunkIndex, false) for every expired chunk
TimeoutTick ==
    /\ aPc # "done"
    /\ LET expired == {c \in DOMAIN pendingChunks : pendingChunks[c].expired}
       IN  /\ expired # {}
           /\ FailChunks(expired)
    /\ UNCHANGED <<aTotal, aPc, aNext, aCur, aComplete, aEnvelopes, ackNetVars>>
    /\ UNCHANGED notAck

\* the listener installed over handleFileChunkAck: handleChunkAck
HandleFileChunkAck ==
    /\ \E m \in aAckNet :
        /\ aAckNet' = aAckNet \ {m}
        /\ IF m[1] \notin DOMAIN pendingChunks
           THEN UNCHANGED <<pendingChunks, confirmedChunks, failedChunks,
                            aHasError, aProgress>>
           ELSE IF m[2]
           THEN /\ pendingChunks' =
                       [c \in DOMAIN pendingChunks \ {m[1]} |-> pendingChunks[c]]
                /\ confirmedChunks' = confirmedChunks \cup {m[1]}
                /\ aProgress' = [num |-> Cardinality(confirmedChunks') * 100,
                                 den |-> aTotal]
                /\ UNCHANGED <<failedChunks, aHasError>>
           ELSE FailChunks({m[1]})
    /\ UNCHANGED <<aTotal, aPc, aNext, aCur, aComplete, aEnvelopes, aChunkNet,
                   aReceived, aConfNet, aConfirmed>>
    /\ UNCHANGED notAck

\* waitForCompletion, one poll that returns, then the report and the finally
WaitForCompletion ==
    /\ aPc = "wait"
    /\ \E timedOut \in BOOLEAN :
        LET success ==
                IF timedOut \/ aHasError \/ failedChunks # {} THEN FALSE
                ELSE Cardinality(confirmedChunks) = aTotal
        IN  /\ timedOut \/ aHasError \/ failedChunks # {}
                  \/ Cardinality(confirmedChunks) = aTotal
            /\ aComplete' = Append(aComplete, success)
    /\ aPc' = "done"
    /\ UNCHANGED <<aTotal, aNext, aCur, pendingChunks, confirmedChunks,
                   failedChunks, aHasError, aProgress, aEnvelopes, ackNetVars>>
    /\ UNCHANGED notAck

\* the receiver's handleFileChunk on an envelope with requireAck: it stores
\* the chunk and acknowledges it; with the last missing index stored,
\* assembleReceivedFile sends the confirmation
AckHandleFileChunk ==
    /\ \E chunkIndex \in aChunkNet :
        /\ aChunkNet' = aChunkNet \ {chunkIndex}
        /\ aReceived' = aReceived \cup {chunkIndex}
        /\ aAckNet' = aAckNet \cup {<<chunkIndex, TRUE>>}
        /\ aConfNet' = (aConfNet \/ Cardinality(aReceived') = aTotal)
    /\ UNCHANGED <<aTotal, aPc, aNext, aCur, pendingChunks, confirmedChunks,
                   failedChunks, aHasError, aProgress, aComplete, aEnvelopes,
                   aConfirmed>>
    /\ UNCHANGED notAck

\* a fileChunkAck with success = false for the transfer is relayed to the
\* sender (the receiver's catch, or another peer of the room)
FailureAck ==
    /\ \E chunkIndex \in 0..(aTotal - 1) :
        /\ <<chunkIndex, FALSE>> \notin aAckNet
        /\ aAckNet' = aAckNet \cup {<<chunkIndex, FALSE>>}
    /\ UNCHANGED <<aTotal, aPc, aNext, aCur, pendingChunks, confirmedChunks,
                   failedChunks, aHasError, aProgress, aComplete, aEnvelopes,
                   aChunkNet, aReceived, aConfNet, aConfirmed>>
    /\ UNCHANGED notAck

\* handleTransferConfirmation on a confirmation with success = true
AckHandleTransferConfirmation ==
    /\ aConfNet
    /\ aConfNet' = FALSE
    /\ aConfirmed' = TRUE
    /\ IF aPc = "done"
       THEN UNCHANGED aComplete
       ELSE aComplete' = Append(aComplete, TRUE)
    /\ UNCHANGED <<aTotal, aPc, aNext, aCur, pendingChunks, confirmedChunks,
                   failedChunks, aHasError, aProgress, aEnvelopes, aChunkNet,
                   aReceived, aAckNet>>
    /\ UNCHANGED notAck

NextAck ==
    \/ SendNextChunk
    \/ ReaderLoaded
    \/ BufferDrained
    \/ DelayDone
    \/ Expire
    \/ TimeoutTick
    \/ HandleFileChunkAck
    \/ WaitForCompletion
    \/ AckHandleFileChunk
    \/ FailureAck
    \/ AckHandleTransferConfirmation

\* the timers, the FileReader and the polls of a running page fire
SpecAck ==
    /\ InitAck
    /\ [][NextAck]_vars
    /\ WF_vars(SendNextChunk)
    /\ WF_vars(ReaderLoaded)
    /\ WF_vars(DelayDone)
    /\ WF_vars(TimeoutTick)
    /\ WF_vars(WaitForCompletion)

(***************************************************************************)
(* Properties of the acknowledgment-based sender (SpecAck).                *)
(***************************************************************************)
\* C1: the sender reports Completed, onTransferComplete(id, true), only after
\* it was handed a fileTransferConfirmation with success = true; every chunk
\* being sent or acknowledged does not by itself produce Completed.
C1_CompletedOnlyOnConfirmation ==
    TRUE \in Range(aComplete) => aConfirmed

\* C7: a pending chunk never carries maxRetries failures; the failure that
\* would be its third moves it to failedChunks and sets hasError; once a chunk
\* has failed no further fileChunk envelope is sent; an expired chunk is
\* acknowledged or fails, and a transfer with a failed chunk ends with
\* onTransferComplete(id, false).
C7_RetryCeilingFails ==
    /\ [](/\ \A c \in DOMAIN pendingChunks : pendingChunks[c].retries < maxRetries
          /\ failedChunks # {} => aHasError)
    /\ [][/\ failedChunks # {} => aEnvelopes' = aEnvelopes
          /\ \A c \in failedChunks' \ failedChunks :
                 /\ c \in DOMAIN pendingChunks
                 /\ pendingChunks[c].retries = maxRetries - 1]_vars
    /\ \A c \in 0..(MaxAckChunks - 1) :
           (c \in DOMAIN pendingChunks /\ pendingChunks[c].expired)
               ~> (c \notin DOMAIN pendingChunks \/ aPc = "done")
    /\ (failedChunks # {})
           ~> (aPc = "done" /\ aComplete # <<>>
               /\ ~aComplete[Len(aComplete)])

\* the second of two chunks failed after the first was acknowledged: the
\* transfer ended with failure and sent nothing more
C7_Witness ==
    /\ aTotal = 2
    /\ confirmedChunks = {0}
    /\ failedChunks = {1}
    /\ aPc = "done"
    /\ aComplete = <<FALSE>>
    /\ aEnvelopes = <<0, 1>>

\* the envelopes sent so far for chunk c
EnvelopesOf(c) == {i \in 1..Len(aEnvelopes) : aEnvelopes[i] = c}

\* C29: a pending chunk with a failed acknowledgment counted, its retries
\* below the ceiling, is sent a second time; and the step that takes a new
\* index from nextChunkIndex is taken with no such chunk waiting
C29_FailedChunkResent ==
    /\ \A c \in 0..(MaxAckChunks - 1) :
           (c \in DOMAIN pendingChunks /\ pendingChunks[c].retries > 0
                /\ pendingChunks[c].retries < maxRetries)
               ~> (Cardinality(EnvelopesOf(c)) >= 2)
    /\ [][aNext' # aNext
              => \A c \in DOMAIN pendingChunks : pendingChunks[c].retries = 0]_vars

(***************************************************************************)
(* precise_resume.md and part_007: the status query after a pause, the     *)
(* priority retransmission, and the rounds of packet-loss retransmission.  *)
(* The channel from sender to receiver delivers in order.                  *)
(***************************************************************************)
\* the elements of a set of indices in ascending order
RECURSIVE SortedSeq(_)
SortedSeq(S) ==
    IF S = {} THEN <<>>
    ELSE LET m == CHOOSE x \in S : \A y \in S : x <= y
         IN  <<m>> \o SortedSeq(S \ {m})

\* an analysis whose loop runs to the declared total inclusive
StatusResponseInclusive(received, total) ==
    [receivedChunks |-> received,
     missingChunks |-> SortedSeq((0..total) \ received),
     totalReceived |-> Cardinality(received)]

\* the receiver's analysis: receivedChunks, missingChunks, totalReceived
StatusResponse(received, total) ==
    [receivedChunks |-> received,
     missingChunks |-> SortedSeq((0..(total - 1)) \ received),
     totalReceived |-> Cardinality(received)]

\* a sender that keeps what it remembers sending next to the reported set
SyncSentSetMerged(local, reported) == local \cup reported

\* transfer.sentChunkSet = new Set(statusMessage.receivedChunks)
SyncSentSet(local, reported) == reported

\* a batch that stops one index short
BatchOfShort(list, i) == SubSeq(list, i + 1, Min(i + batchSize, Len(list)) - 1)

\* missingChunks.slice(i, i + batchSize)
BatchOf(list, i) == SubSeq(list, i + 1, Min(i + batchSize, Len(list)))

\* retransmissionRound after a round of retransmitMissingChunks: the loop
\* counts its rounds, as its limit and the test against it require
NextRound(round) == round + 1

\* a loop that admits one round more
LoopContinuesLate(round) == round <= maxRetransmissionRounds

\* while (retransmissionRound < maxRetransmissionRounds)
LoopContinues(round) == round < maxRetransmissionRounds

InitResume ==
    /\ file = <<>>
    /\ chunkSize = 1
    /\ IdleFT
    /\ aTotal = 0
    /\ IdleAck
    /\ rcTotal \in 1..MaxRcChunks
    /\ rcPausedAt \in 0..rcTotal
    /\ rcPc = "paused"
    /\ rcRecv \in SUBSET (0..(rcPausedAt - 1))
    /\ rcSentSet = 0..(rcPausedAt - 1)
    /\ rcSentChunks = rcPausedAt
    /\ rcMissing = {}
    /\ rcRound = 0
    /\ rcReported = <<>>
    /\ rcOffset = 0
    /\ rcAttempted = {}
    /\ rcSentOk = {}
    /\ rcChan = <<>>
    /\ rcResp = <<>>
    /\ IdleMock
    /\ IdleRelay
    /\ ccTotal = 0
    /\ ccNetSpeed = 0
    /\ IdleConc
    /\ IdleOffer
    /\ IdleChunkAck

\* network recovery: the sender asks for the receiver's state
QueryStatus ==
    /\ rcPc = "paused"
    /\ rcPc' = "querying_status"
    /\ rcChan' = Append(rcChan, -1)
    /\ UNCHANGED <<rcTotal, rcPausedAt, rcRecv, rcSentSet, rcSentChunks,
                   rcMissing, rcRound, rcReported, rcOffset, rcAttempted,
                   rcSentOk, rcResp>>
    /\ UNCHANGED notRc

\* the receiver answers a fileTransferStatusRequest
HandleStatusRequest ==
    /\ rcChan # <<>>
    /\ Head(rcChan) = -1
    /\ rcChan' = Tail(rcChan)
    /\ rcResp' = Append(rcResp, StatusResponse(rcRecv, rcTotal))
    /\ UNCHANGED <<rcTotal, rcPausedAt, rcPc, rcRecv, rcSentSet, rcSentChunks,
                   rcMissing, rcRound, rcReported, rcOffset, rcAttempted,
                   rcSentOk>>
    /\ UNCHANGED notRc

\* the receiver stores a chunk; an index it holds already is ignored
ReceiveRetransmission ==
    /\ rcChan # <<>>
    /\ Head(rcChan) >= 0
    /\ rcChan' = Tail(rcChan)
    /\ rcRecv' = rcRecv \cup {Head(rcChan)}
    /\ UNCHANGED <<rcTotal, rcPausedAt, rcPc, rcSentSet, rcSentChunks,
                   rcMissing, rcRound, rcReported, rcOffset, rcAttempted,
                   rcSentOk, rcResp>>
    /\ UNCHANGED notRc

\* the sender in querying_status is handed the response: it takes over the
\* receiver's state
HandleStatusResponse ==
    /\ rcPc = "querying_status"
    /\ rcResp # <<>>
    /\ rcResp' = Tail(rcResp)
    /\ rcSentSet' = SyncSentSet(rcSentSet, Head(rcResp).receivedChunks)
    /\ rcSentChunks' = Head(rcResp).totalReceived
    /\ rcMissing' = Range(Head(rcResp).missingChunks)
    /\ rcReported' = Head(rcResp).missingChunks
    /\ rcAttempted' = {}
    /\ rcSentOk' = {}
    /\ rcPc' = "sending"
    /\ UNCHANGED <<rcTotal, rcPausedAt, rcRecv, rcRound, rcOffset, rcChan>>
    /\ UNCHANGED notRc

\* a timer that tests for the status paused
StatusTimeoutOnPaused ==
    /\ rcPc = "paused"
    /\ rcPc' = "sending"
    /\ UNCHANGED <<rcTotal, rcPausedAt, rcRecv, rcSentSet, rcSentChunks,
                   rcMissing, rcRound, rcReported, rcOffset, rcAttempted,
                   rcSentOk, rcChan, rcResp>>
    /\ UNCHANGED notRc

\* the 5 s timer: still querying_status, so resumeWithLocalState
StatusTimeout ==
    /\ rcPc = "querying_status"
    /\ rcPc' = "sending"
    /\ UNCHANGED <<rcTotal, rcPausedAt, rcRecv, rcSentSet, rcSentChunks,
                   rcMissing, rcRound, rcReported, rcOffset, rcAttempted,
                   rcSentOk, rcChan, rcResp>>
    /\ UNCHANGED notRc

\* a response that reaches the sender while it awaits none
DropLateResponse ==
    /\ rcPc \notin {"querying_status", "checking_missing", "final_check"}
    /\ rcResp # <<>>
    /\ rcResp' = Tail(rcResp)
    /\ UNCHANGED <<rcTotal, rcPausedAt, rcPc, rcRecv, rcSentSet, rcSentChunks,
                   rcMissing, rcRound, rcReported, rcOffset, rcAttempted,
                   rcSentOk, rcChan>>
    /\ UNCHANGED notRc

\* priority retransmission: up to batchSize indices leave missingChunks and
\* are sent; sent is the set of those whose envelope went out
PriorityBatch ==
    /\ rcPc = "sending"
    /\ rcMissing # {}
    /\ LET batch == Range(BatchOf(SortedSeq(rcMissing), 0))
       IN  /\ rcMissing' = rcMissing \ batch
           /\ rcAttempted' = rcAttempted \cup batch
           /\ \E sent \in SUBSET batch :
                /\ rcChan' = rcChan \o SortedSeq(sent)
                /\ rcSentSet' = rcSentSet \cup sent
                /\ rcSentChunks' = Cardinality(rcSentSet')
                /\ rcSentOk' = rcSentOk \cup sent
    /\ UNCHANGED <<rcTotal, rcPausedAt, rcPc, rcRecv, rcRound, rcReported,
                   rcOffset, rcResp>>
    /\ UNCHANGED notRc

\* normal sending goes on with the first index that is not in sentChunkSet
SendUnsent ==
    /\ rcPc = "sending"
    /\ rcMissing = {}
    /\ (0..(rcTotal - 1)) \ rcSentSet # {}
    /\ LET chunkIndex == Head(SortedSeq((0..(rcTotal - 1)) \ rcSentSet))
       IN  /\ rcChan' = Append(rcChan, chunkIndex)
           /\ rcSentSet' = rcSentSet \cup {chunkIndex}
           /\ rcSentChunks' = Cardinality(rcSentSet')
    /\ UNCHANGED <<rcTotal, rcPausedAt, rcPc, rcRecv, rcMissing, rcRound,
                   rcReported, rcOffset, rcAttempted, rcSentOk, rcResp>>
    /\ UNCHANGED notRc

\* totalSent >= totalChunks * 0.95 after the last send:
\* handlePacketLossRetransmission starts with its first queryMissingChunks
StartLossCheck ==
    /\ rcPc = "sending"
    /\ rcMissing = {}
    /\ (0..(rcTotal - 1)) \ rcSentSet = {}
    /\ Cardinality(rcSentSet) * 100 >= rcTotal * 95
    /\ rcPc' = "checking_missing"
    /\ rcRound' = 0
    /\ rcChan' = Append(rcChan, -1)
    /\ UNCHANGED <<rcTotal, rcPausedAt, rcRecv, rcSentSet, rcSentChunks,
                   rcMissing, rcReported, rcOffset, rcAttempted, rcSentOk,
                   rcResp>>
    /\ UNCHANGED notRc

\* the loop is handed the answer of queryMissingChunks: none missing breaks
\* the loop and the final check queries again
MissingChunksReported ==
    /\ rcPc = "checking_missing"
    /\ rcResp # <<>>
    /\ rcResp' = Tail(rcResp)
    /\ IF Len(Head(rcResp).missingChunks) = 0
       THEN /\ rcPc' = "final_check"
            /\ rcChan' = Append(rcChan, -1)
            /\ UNCHANGED <<rcReported, rcOffset, rcAttempted, rcSentOk>>
       ELSE /\ rcPc' = "retransmitting"
            /\ rcReported' = Head(rcResp).missingChunks
            /\ rcOffset' = 0
            /\ rcAttempted' = {}
            /\ rcSentOk' = {}
            /\ UNCHANGED rcChan
    /\ UNCHANGED <<rcTotal, rcPausedAt, rcRecv, rcSentSet, rcSentChunks,
                   rcMissing, rcRound>>
    /\ UNCHANGED notRc

\* retransmitSingleChunk: the envelope of a retransmitted chunk
retransmitSingleChunk(chunkIndex) ==
    [type |-> "realtimeFileChunk", chunkIndex |-> chunkIndex,
     requireAck |-> FALSE, isRetransmission |-> TRUE]

\* retransmitMissingChunks: one batch under Promise.allSettled; after the last
\* batch the round is counted and the loop queries again or, at the limit of
\* rounds, the final check does
RetransmitBatch ==
    /\ rcPc = "retransmitting"
    /\ LET batch == Range(BatchOf(rcReported, rcOffset))
       IN  /\ rcAttempted' = rcAttempted \cup batch
           /\ \E sent \in SUBSET batch :
                /\ rcSentOk' = rcSentOk \cup sent
                /\ IF rcOffset + batchSize < Len(rcReported)
                   THEN /\ rcChan' = rcChan \o SortedSeq(sent)
                        /\ UNCHANGED <<rcPc, rcRound>>
                   ELSE /\ rcChan' = Append(rcChan \o SortedSeq(sent), -1)
                        /\ rcRound' = NextRound(rcRound)
                        /\ rcPc' = IF LoopContinues(NextRound(rcRound))
                                   THEN "checking_missing" ELSE "final_check"
    /\ rcOffset' = rcOffset + batchSize
    /\ UNCHANGED <<rcTotal, rcPausedAt, rcRecv, rcSentSet, rcSentChunks,
                   rcMissing, rcReported, rcResp>>
    /\ UNCHANGED notRc

\* a final check that completes whatever the closing report says
FinalCheckLenient ==
    /\ rcPc = "final_check"
    /\ rcResp # <<>>
    /\ rcResp' = Tail(rcResp)
    /\ rcPc' = "completed"
    /\ UNCHANGED <<rcTotal, rcPausedAt, rcRecv, rcSentSet, rcSentChunks,
                   rcMissing, rcRound, rcReported, rcOffset, rcAttempted,
                   rcSentOk, rcChan>>
    /\ UNCHANGED notRc

\* the final check: completed when no chunk is missing, failed otherwise
FinalCheck ==
    /\ rcPc = "final_check"
    /\ rcResp # <<>>
    /\ rcResp' = Tail(rcResp)
    /\ rcPc' = IF Len(Head(rcResp).missingChunks) = 0 THEN "completed"
               ELSE "failed"
    /\ UNCHANGED <<rcTotal, rcPausedAt, rcRecv, rcSentSet, rcSentChunks,
                   rcMissing, rcRound, rcReported, rcOffset, rcAttempted,
                   rcSentOk, rcChan>>
    /\ UNCHANGED notRc

NextResume ==
    \/ QueryStatus
    \/ HandleStatusRequest
    \/ ReceiveRetransmission
    \/ HandleStatusResponse
    \/ StatusTimeout
    \/ DropLateResponse
    \/ PriorityBatch
    \/ SendUnsent
    \/ StartLossCheck

\* a paused transfer up to the start of handlePacketLossRetransmission
SpecResume == InitResume /\ [][NextResume]_vars

\* handlePacketLossRetransmission has sent its first queryMissingChunks: the
\* sender has sent every chunk, the receiver holds some of them
InitLoss ==
    /\ file = <<>>
    /\ chunkSize = 1
    /\ IdleFT
    /\ aTotal = 0
    /\ IdleAck
    /\ rcTotal \in 1..MaxRcChunks
    /\ rcPausedAt = 0
    /\ rcPc = "checking_missing"
    /\ rcRecv \in SUBSET (0..(rcTotal - 1))
    /\ rcSentSet = 0..(rcTotal - 1)
    /\ rcSentChunks = rcTotal
    /\ rcMissing = {}
    /\ rcRound = 0
    /\ rcReported = <<>>
    /\ rcOffset = 0
    /\ rcAttempted = {}
    /\ rcSentOk = {}
    /\ rcChan = <<-1>>
    /\ rcResp = <<>>
    /\ IdleMock
    /\ IdleRelay
    /\ ccTotal = 0
    /\ ccNetSpeed = 0
    /\ IdleConc
    /\ IdleOffer
    /\ IdleChunkAck

NextLoss ==
    \/ HandleStatusRequest
    \/ ReceiveRetransmission
    \/ MissingChunksReported
    \/ RetransmitBatch
    \/ FinalCheck

\* every message is delivered and handled, and the retransmission of a round
\* goes on to its last batch
SpecLoss ==
    /\ InitLoss
    /\ [][NextLoss]_vars
    /\ WF_vars(HandleStatusRequest)
    /\ WF_vars(ReceiveRetransmission)
    /\ WF_vars(MissingChunksReported)
    /\ WF_vars(RetransmitBatch)
    /\ WF_vars(FinalCheck)

C33_FailsWhenStillMissing ==
    /\ [](/\ rcRound <= maxRetransmissionRounds
          /\ \A i \in 1..Len(rcChan) :
                 rcChan[i] # -1 =>
                     /\ ~retransmitSingleChunk(rcChan[i]).requireAck
                     /\ retransmitSingleChunk(rcChan[i]).isRetransmission
          /\ (rcPc \in {"completed", "failed"} /\ rcRecv # 0..(rcTotal - 1))
                 => rcPc = "failed")
    /\ [][/\ (rcPc = "final_check" /\ rcPc' # "final_check")
                 => /\ rcChan = <<>>
                    /\ rcPc' = IF rcRecv = 0..(rcTotal - 1) THEN "completed"
                               ELSE "failed"
          /\ rcPc \in {"completed", "failed"} => rcPc' = rcPc
          /\ rcRound' \in {rcRound, rcRound + 1}]_vars

\* the session failed after the last round, in which a retransmission was
\* sent and received
C33_Witness ==
    /\ rcPc = "failed"
    /\ rcRound = maxRetransmissionRounds
    /\ rcSentOk # {}
    /\ rcSentOk \subseteq rcRecv
    /\ rcRecv # 0..(rcTotal - 1)

\* C6: a status response reports as missing exactly the declared indices the
\* receiver does not hold; the indices retransmitted in a round are indices
\* of the report and, when the round ends, all of them; a final query that
\* reports no missing index makes the transfer completed.
C6_RetransmitsReported ==
    /\ [](/\ rcAttempted \subseteq Range(rcReported)
          /\ rcSentOk \subseteq rcAttempted
          /\ \A i \in 1..Len(rcResp) :
                 /\ Range(rcResp[i].missingChunks)
                        = (0..(rcTotal - 1)) \ rcResp[i].receivedChunks
                 /\ rcResp[i].totalReceived
                        = Cardinality(rcResp[i].receivedChunks))
    /\ [][/\ rcRound' = rcRound + 1 => rcAttempted' = Range(rcReported)
          /\ (rcPc = "checking_missing" /\ rcPc' = "retransmitting")
                 => /\ rcReported' = Head(rcResp).missingChunks
                    /\ Range(rcReported') \cap Head(rcResp).receivedChunks = {}
          /\ (rcPc = "final_check" /\ rcResp # <<>> /\ rcResp' = Tail(rcResp)
                  /\ Len(Head(rcResp).missingChunks) = 0)
                 => rcPc' = "completed"]_vars

\* one round retransmitted more indices than a batch holds and the follow-up
\* query found none missing
C6_Witness ==
    /\ rcRound = 1
    /\ Cardinality(rcAttempted) > batchSize
    /\ rcAttempted = Range(rcReported)
    /\ rcPc = "completed"

\* C9: the step that hands a status response to a sender in querying_status
\* replaces sentChunkSet by the reported set of received indices, sentChunks
\* by its size, and missingChunks by the declared range less that set.
C9_ReceiverStateAdopted ==
    [][(rcPc = "querying_status" /\ rcResp # <<>> /\ rcResp' = Tail(rcResp))
           => /\ rcSentSet' = Head(rcResp).receivedChunks
              /\ rcSentChunks' = Cardinality(Head(rcResp).receivedChunks)
              /\ rcMissing' = (0..(rcTotal - 1)) \ Head(rcResp).receivedChunks]_vars

\* the sender has just adopted a reported set smaller than what it remembered
\* sending
C9_Witness ==
    /\ rcPc = "sending"
    /\ rcAttempted = {}
    /\ rcSentSet = rcRecv
    /\ rcSentChunks < rcPausedAt
    /\ rcMissing = (0..(rcTotal - 1)) \ rcRecv
    /\ rcSentSet # 0..(rcSentChunks - 1)

SpecResumeLive ==
    /\ InitResume
    /\ [][NextResume]_vars
    /\ WF_vars(StatusTimeout)

InitMock ==
    /\ file = <<>>
    /\ chunkSize = 1
    /\ IdleFT
    /\ aTotal = 0
    /\ IdleAck
    /\ IdleRc
    /\ IdleMock
    /\ IdleRelay
    /\ ccTotal = 0
    /\ ccNetSpeed = 0
    /\ IdleConc
    /\ IdleOffer
    /\ IdleChunkAck

\* one run of sendNextChunk on a transfer
sendNextChunk(transfer, connected) ==
    IF ~transfer.isActive \/ transfer.status \in {"cancelled", "failed"}
    THEN transfer
    ELSE IF ~connected
    THEN [transfer EXCEPT !.status = "paused", !.isActive = FALSE]
    ELSE IF transfer.sentChunks >= transfer.totalChunks
    THEN [transfer EXCEPT !.status = "completed", !.isActive = FALSE]
    ELSE [transfer EXCEPT !.sentChunks = @ + 1, !.timers = @ + 1]

\* a resumeTransfer closure that starts over, as retryTransfer does
resumeFromStart(transfer, connected) ==
    IF transfer.status = "paused" /\ connected
    THEN sendNextChunk([transfer EXCEPT !.isActive = TRUE, !.status = "sending",
                                        !.sentChunks = 0],
                       connected)
    ELSE transfer

\* the transfer.resumeTransfer closure, which ends in continueTransfer
resumeTransferClosure(transfer, connected) ==
    IF transfer.status = "paused" /\ connected
    THEN sendNextChunk([transfer EXCEPT !.isActive = TRUE, !.status = "sending"],
                       connected)
    ELSE transfer

\* connect()
MockConnect ==
    /\ ~isConnected
    /\ isConnected' = TRUE
    /\ UNCHANGED activeTransfers
    /\ UNCHANGED notMock

\* disconnect(), which ends in pauseActiveTransfers(); closures tells
\* whether sendChunks has given the transfer its stopTransfer and
\* resumeTransfer
MockDisconnect ==
    /\ isConnected
    /\ isConnected' = FALSE
    /\ activeTransfers' =
           [t \in Transfers |->
                IF activeTransfers[t].status = "sending"
                       /\ activeTransfers[t].closures
                THEN [activeTransfers[t] EXCEPT !.status = "paused",
                                                !.isActive = FALSE]
                ELSE activeTransfers[t]]
    /\ UNCHANGED notMock

\* startFileTransfer, through sendChunks and continueTransfer to the first
\* run of sendNextChunk
StartFileTransfer ==
    /\ \E t \in Transfers, total \in 1..MaxMockChunks :
        /\ activeTransfers[t].status = "none"
        /\ activeTransfers' =
               [activeTransfers EXCEPT ![t] =
                    sendNextChunk([status |-> "sending", isActive |-> TRUE,
                                   sentChunks |-> 0, totalChunks |-> total,
                                   timers |-> 0, closures |-> TRUE],
                                  isConnected)]
    /\ UNCHANGED isConnected
    /\ UNCHANGED notMock

\* a setTimeout(sendNextChunk, 100) fires
MockTimerFires(t) ==
    /\ activeTransfers[t].timers > 0
    /\ activeTransfers' =
           [activeTransfers EXCEPT ![t] =
                sendNextChunk([activeTransfers[t] EXCEPT !.timers = @ - 1],
                              isConnected)]
    /\ UNCHANGED isConnected
    /\ UNCHANGED notMock

\* resumePausedTransfers()
ResumePausedTransfers ==
    /\ isConnected
    /\ \E t \in Transfers :
           activeTransfers[t].status = "paused" /\ activeTransfers[t].closures
    /\ activeTransfers' =
           [t \in Transfers |->
                IF activeTransfers[t].closures
                THEN resumeTransferClosure(activeTransfers[t], isConnected)
                ELSE activeTransfers[t]]
    /\ UNCHANGED isConnected
    /\ UNCHANGED notMock

\* resumeTransfer(transferId)
ResumeTransfer(t) ==
    /\ isConnected
    /\ activeTransfers[t].status = "paused"
    /\ activeTransfers[t].closures
    /\ activeTransfers' =
           [activeTransfers EXCEPT ![t] =
                resumeTransferClosure(activeTransfers[t], isConnected)]
    /\ UNCHANGED isConnected
    /\ UNCHANGED notMock

NextMock ==
    \/ MockConnect
    \/ MockDisconnect
    \/ StartFileTransfer
    \/ \E t \in Transfers : MockTimerFires(t)
    \/ ResumePausedTransfers
    \/ \E t \in Transfers : ResumeTransfer(t)

\* timers fire, and a reconnected page calls resumePausedTransfers
SpecMock ==
    /\ InitMock
    /\ [][NextMock]_vars
    /\ \A t \in Transfers : WF_vars(MockTimerFires(t))
    /\ WF_vars(ResumePausedTransfers)

(***************************************************************************)
(* Properties of MockResumeTransferManager (SpecMock).                     *)
(***************************************************************************)
\* C10: a disconnect turns every sending transfer into a paused one and
\* leaves sentChunks as it is; sentChunks never decreases and never exceeds
\* totalChunks; a resumed transfer goes on from the saved sentChunks (its
\* next chunk, or straight to completed when none is left); a
\* completed transfer has sentChunks = totalChunks; and if the connection
\* stays up from some moment on, then from some moment on every transfer
\* that was started is completed.
C10_PauseResumeKeepsProgress ==
    /\ [](\A t \in Transfers :
              /\ activeTransfers[t].sentChunks <= activeTransfers[t].totalChunks
              /\ activeTransfers[t].status = "completed" =>
                     activeTransfers[t].sentChunks
                         = activeTransfers[t].totalChunks
              /\ ~isConnected => activeTransfers[t].status # "sending")
    /\ [][\A t \in Transfers :
              /\ activeTransfers'[t].sentChunks >= activeTransfers[t].sentChunks
              /\ (isConnected /\ ~isConnected'
                      /\ activeTransfers[t].status = "sending")
                     => /\ activeTransfers'[t].status = "paused"
                        /\ activeTransfers'[t].sentChunks
                               = activeTransfers[t].sentChunks
              /\ (activeTransfers[t].status = "paused"
                      /\ activeTransfers'[t].status # "paused")
                     => /\ activeTransfers'[t].status \in {"sending", "completed"}
                        /\ activeTransfers'[t].sentChunks
                               = Min(activeTransfers[t].sentChunks + 1,
                                     activeTransfers[t].totalChunks)]_vars
    /\ <>[]isConnected =>
           <>[](\A t \in Transfers :
                    activeTransfers[t].status \in {"none", "completed"})

\* a transfer paused in the middle and a transfer that completed
C10_Witness ==
    /\ ~isConnected
    /\ activeTransfers[1].status = "paused"
    /\ activeTransfers[1].sentChunks = 1
    /\ activeTransfers[1].totalChunks = MaxMockChunks
    /\ activeTransfers[2].status = "completed"

\* C37: a transfer never has two chains of sendNextChunk running, that is,
\* two of its setTimeout(sendNextChunk, 100) calls pending at once, however
\* disconnect, connect and the two resume calls interleave with the timer.
C37_OneSendingLoop ==
    \A t \in Transfers : activeTransfers[t].timers <= 1

\* scenario 4 of runTests: a failed transfer record is put into
\* activeTransfers; it has no isActive and no closures
SetFailedTransfer ==
    /\ \E t \in Transfers, total \in 1..MaxMockChunks, sent \in 0..MaxMockChunks :
        /\ activeTransfers[t].status = "none"
        /\ sent < total
        /\ activeTransfers' =
               [activeTransfers EXCEPT ![t] =
                    [status |-> "failed", isActive |-> FALSE,
                     sentChunks |-> sent, totalChunks |-> total,
                     timers |-> 0, closures |-> FALSE]]
    /\ UNCHANGED isConnected
    /\ UNCHANGED notMock

\* retryTransfer(transferId), through continueTransfer to the first run of
\* sendNextChunk
RetryTransfer(t) ==
    /\ activeTransfers[t].status = "failed"
    /\ activeTransfers' =
           [activeTransfers EXCEPT ![t] =
                sendNextChunk([activeTransfers[t] EXCEPT !.status = "sending",
                                                         !.sentChunks = 0,
                                                         !.isActive = TRUE],
                              isConnected)]
    /\ UNCHANGED isConnected
    /\ UNCHANGED notMock

NextRetry ==
    \/ NextMock
    \/ SetFailedTransfer
    \/ \E t \in Transfers : RetryTransfer(t)

\* the manager with failed transfers and the retry button
SpecRetry == InitMock /\ [][NextRetry]_vars

\* C28: a transfer whose status is cancelled, failed or completed keeps
\* that status and its count of chunks sent in every step
C28_TerminalAbsorbing ==
    [][\A t \in Transfers :
           activeTransfers[t].status \in {"cancelled", "failed", "completed"}
               => /\ activeTransfers'[t].status = activeTransfers[t].status
                  /\ activeTransfers'[t].sentChunks
                         = activeTransfers[t].sentChunks]_vars

(***************************************************************************)
(* ChatRoom.ts (the second, current ChatRoom of the file) relaying the     *)
(* envelopes the transfer managers build (SpecRelay).  A message is a      *)
(* record of the fields the room reads or copies; the payload string of a  *)
(* chunk stands as its length.                                             *)
(***************************************************************************)
\* a calculateOptimalChunkSize without the Math.min against maxRawSize and
\* with 512KB and 600KB as its upper tiers
calculateOptimalChunkSizeUncapped(fileSize) ==
    IF fileSize < 1024 * 1024 THEN 128 * 1024
    ELSE IF fileSize < 10 * 1024 * 1024 THEN 256 * 1024
    ELSE IF fileSize < 100 * 1024 * 1024 THEN 512 * 1024
    ELSE 600 * 1024

\* FileTransferManager.calculateOptimalChunkSize; base64Overhead * jsonOverhead
\* = 4/3 * 1.25 is the fraction (4 * 125) / (3 * 100)
calculateOptimalChunkSize(fileSize) ==
    LET maxRawSize == (maxSafeMessageSize * 3 * 100) \div (4 * 125)
    IN  IF fileSize < 1024 * 1024 THEN Min(128 * 1024, maxRawSize)
        ELSE IF fileSize < 10 * 1024 * 1024 THEN Min(256 * 1024, maxRawSize)
        ELSE IF fileSize < 100 * 1024 * 1024 THEN Min(384 * 1024, maxRawSize)
        ELSE Min(400 * 1024, maxRawSize)

\* the length of arrayBufferToBase64 of n bytes
EncodedLength(n) == 4 * CeilDiv(n, 3)

\* the payload lengths of the model: each side of every tier boundary
FileSizes == {0, 1, 1024 * 1024 - 1, 1024 * 1024, 10 * 1024 * 1024 - 1,
              10 * 1024 * 1024, 100 * 1024 * 1024 - 1, 100 * 1024 * 1024}

\* initiateFileTransfer: the request for a payload of fileSize bytes
RequestOf(fileSize, targetUserId) ==
    [Blank EXCEPT !.type = "fileTransferRequest", !.transferId = "t1",
                  !.targetUserId = targetUserId, !.fileSize = fileSize,
                  !.chunkSize = calculateOptimalChunkSize(fileSize)]

\* the fields sendSingleChunk gives the envelope of chunk 0 of a payload of
\* fileSize bytes cut at the budgeted chunk length
ChunkOf(fileSize, targetUserId) ==
    LET size == calculateOptimalChunkSize(fileSize)
    IN  [Blank EXCEPT !.transferId = "t1", !.targetUserId = targetUserId,
                      !.chunkIndex = 0,
                      !.chunkData = EncodedLength(Min(size, fileSize)),
                      !.isLast = IF CeilDiv(fileSize, size) = 1
                                 THEN "true" ELSE "false",
                      !.fileSize = fileSize, !.chunkSize = size]

\* the chunk envelopes of the senders: FileTransferManager.ts (type fileChunk,
\* no requireAck), part_003 (type fileChunk, requireAck true), fix_summary.md
\* (type realtimeFileChunk, requireAck true) and the retransmission of
\* part_007 (type realtimeFileChunk, requireAck false, no targetUserId, no
\* isLast)
ClientChunks ==
    UNION {{[ChunkOf(L, u) EXCEPT !.type = "fileChunk"],
            [ChunkOf(L, u) EXCEPT !.type = "fileChunk", !.requireAck = "true"],
            [ChunkOf(L, u) EXCEPT !.type = "realtimeFileChunk",
                                  !.requireAck = "true"],
            [ChunkOf(L, u) EXCEPT !.type = "realtimeFileChunk",
                                  !.requireAck = "false",
                                  !.targetUserId = "undefined",
                                  !.isLast = "undefined"]} :
           L \in FileSizes \ {0}, u \in Ids}

\* realtimeFileChunk messages of any sender, with payloads at and over the
\* ceiling
OtherChunks ==
    {[Blank EXCEPT !.type = "realtimeFileChunk", !.transferId = t,
                   !.targetUserId = u, !.chunkIndex = i, !.chunkData = n,
                   !.isLast = l, !.requireAck = "true"] :
        t \in TIds, u \in Ids, i \in {0, 1},
        n \in {maxChunkSize, maxChunkSize + 1}, l \in {"true", "false"}}

\* the requests: those of initiateFileTransfer, and requests without metadata
Requests ==
    {RequestOf(L, u) : L \in FileSizes, u \in Ids}
        \cup {[Blank EXCEPT !.type = "fileTransferRequest", !.transferId = t,
                            !.targetUserId = u] : t \in TIds, u \in Ids}

\* handleTransferRequest: the response names the requesting user
Responses ==
    {[Blank EXCEPT !.type = "fileTransferResponse", !.transferId = t,
                   !.senderId = u, !.accepted = a] :
        t \in TIds, u \in Ids, a \in {"true", "false"}}

\* part_003 handleFileChunk: the acknowledgment of a chunk
Acks ==
    {[Blank EXCEPT !.type = "fileChunkAck", !.transferId = t, !.senderId = u,
                   !.chunkIndex = i, !.success = k] :
        t \in TIds, u \in Ids, i \in {0, 1}, k \in {"true", "false"}}

\* assembleReceivedFile: the confirmation, with its text
Confirmations ==
    {[Blank EXCEPT !.type = "fileTransferConfirmation", !.transferId = t,
                   !.senderId = u, !.success = k,
                   !.message = IF k = "true" THEN "verified" ELSE "failed"] :
        t \in TIds, u \in Ids, k \in {"true", "false"}}

\* cancelTransfer
Cancels ==
    {[Blank EXCEPT !.type = "fileTransferCancel", !.transferId = t,
                   !.targetUserId = u] : t \in TIds, u \in Ids}

\* part_007: the status query of the sender and the answer of the receiver
StatusMessages ==
    {[Blank EXCEPT !.type = "fileTransferStatusRequest", !.transferId = t,
                   !.targetUserId = u] : t \in TIds, u \in Ids}
        \cup {[Blank EXCEPT !.type = "fileTransferStatusResponse",
                            !.transferId = t] : t \in TIds}

\* the upload protocol of the room: fileStart and its fileChunk, whose
\* chunkData field stands for encryptedChunk
Uploads ==
    {[Blank EXCEPT !.type = "fileStart", !.fileId = f] : f \in FileIds}
        \cup {[Blank EXCEPT !.type = "fileChunk", !.fileId = f,
                            !.chunkIndex = i, !.chunkData = 4] :
                 f \in FileIds, i \in {0, 1}}

\* the register messages: a key that yields a user id, a string that is no
\* PGP key, and no key
Registers ==
    {[Blank EXCEPT !.type = "register", !.publicKey = k] :
        k \in Ids \cup {"bad", "undefined"}}

\* sendError builds { type: 'error', message }
Error(text) == [Blank EXCEPT !.type = "error", !.message = text]

\* findUserById: the connection of the user with this id, 0 = undefined
findUserById(id) ==
    IF \E c \in Conns : users[c] = id
    THEN CHOOSE c \in Conns : users[c] = id
    ELSE 0

\* the effect of a handler call: what it wrote and the room state it leaves
Effect(out, u, s, ft, fc) ==
    [out |-> out, users |-> u, sessions |-> s, fileTransfers |-> ft,
     fileChunks |-> fc]

\* a call that writes out and assigns no field of the room
Reply(out) == Effect(out, users, sessions, fileTransfers, fileChunks)

\* broadcast: the message goes to every session
broadcast(message, s) == {<<c, message>> : c \in s}

\* handleFileTransferChunk's test of the payload against the ceiling
chunkTooLargeOld(message) == message.chunkData > oldMaxChunkSize
chunkTooLargeKB(message) == message.chunkData \div 1024 > maxChunkSize
chunkTooLarge(message) == message.chunkData > maxChunkSize

\* the registration test of the handlers: this.users.get(webSocket)
registeredOrOpen(webSocket) == webSocket \in sessions
registered(webSocket) == users[webSocket] # "none"

handleFileTransferRequestBroadcast(webSocket, message, fails) ==
    LET targetUser == findUserById(message.targetUserId)
    IN  IF ~registered(webSocket)
        THEN Reply({<<webSocket, Error("User not registered")>>})
        ELSE IF targetUser = 0
        THEN Reply({<<webSocket, Error("Target user not found")>>})
        ELSE IF message.fileSize <= 0
        THEN Reply({<<webSocket, Error("Invalid file metadata")>>})
        ELSE IF fails
        THEN Reply({<<webSocket,
                      Error("Failed to deliver transfer request")>>})
        ELSE Reply(broadcast([Blank EXCEPT
                                 !.type = "fileTransferRequestNotification",
                                 !.transferId = message.transferId,
                                 !.senderId = users[webSocket],
                                 !.fileSize = message.fileSize,
                                 !.chunkSize = message.chunkSize],
                             sessions \ {webSocket}))

handleFileTransferRequest(webSocket, message, fails) ==
    LET targetUser == findUserById(message.targetUserId)
    IN  IF ~registered(webSocket)
        THEN Reply({<<webSocket, Error("User not registered")>>})
        ELSE IF targetUser = 0
        THEN Reply({<<webSocket, Error("Target user not found")>>})
        ELSE IF message.fileSize <= 0
        THEN Reply({<<webSocket, Error("Invalid file metadata")>>})
        ELSE IF fails
        THEN Reply({<<webSocket,
                      Error("Failed to deliver transfer request")>>})
        ELSE Reply({<<targetUser,
                      [Blank EXCEPT
                          !.type = "fileTransferRequestNotification",
                          !.transferId = message.transferId,
                          !.senderId = users[webSocket],
                          !.fileSize = message.fileSize,
                          !.chunkSize = message.chunkSize]>>})

handleFileTransferResponse(webSocket, message, fails) ==
    LET targetUser == findUserById(message.senderId)
    IN  IF ~registered(webSocket)
        THEN Reply({<<webSocket, Error("User not registered")>>})
        ELSE IF targetUser = 0
        THEN Reply({<<webSocket, Error("Original sender not found")>>})
        ELSE IF fails
        THEN Reply({<<webSocket,
                      Error("Failed to deliver transfer response")>>})
        ELSE Reply({<<targetUser,
                      [Blank EXCEPT
                          !.type = "fileTransferResponseNotification",
                          !.transferId = message.transferId,
                          !.targetUserId = users[webSocket],
                          !.accepted = message.accepted]>>})

\* a handleFileTransferChunk that keeps the chunk as the upload handler does
handleFileTransferChunkStoring(webSocket, message, fails) ==
    LET targetUser == findUserById(message.targetUserId)
    IN  IF ~registered(webSocket)
        THEN Reply({<<webSocket, Error("User not registered")>>})
        ELSE IF targetUser = 0
        THEN Reply({<<webSocket, Error("Target user not found")>>})
        ELSE IF chunkTooLarge(message)
        THEN Reply({<<webSocket, Error("Chunk too large")>>})
        ELSE Effect(IF fails
                    THEN {<<webSocket, Error("Failed to deliver file chunk")>>}
                    ELSE {<<targetUser,
                            [Blank EXCEPT
                                !.type = "realtimeFileChunkNotification",
                                !.transferId = message.transferId,
                                !.senderId = users[webSocket],
                                !.chunkIndex = message.chunkIndex,
                                !.chunkData = message.chunkData,
                                !.isLast = message.isLast]>>},
                    users, sessions, fileTransfers,
                    [f \in DOMAIN fileChunks \cup {message.transferId} |->
                        IF f = message.transferId
                        THEN {message.chunkIndex}
                        ELSE fileChunks[f]])

handleFileTransferChunk(webSocket, message, fails) ==
    LET targetUser == findUserById(message.targetUserId)
    IN  IF ~registered(webSocket)
        THEN Reply({<<webSocket, Error("User not registered")>>})
        ELSE IF targetUser = 0
        THEN Reply({<<webSocket, Error("Target user not found")>>})
        ELSE IF chunkTooLarge(message)
        THEN Reply({<<webSocket, Error("Chunk too large")>>})
        ELSE IF fails
        THEN Reply({<<webSocket, Error("Failed to deliver file chunk")>>})
        ELSE Reply({<<targetUser,
                      [Blank EXCEPT
                          !.type = "realtimeFileChunkNotification",
                          !.transferId = message.transferId,
                          !.senderId = users[webSocket],
                          !.chunkIndex = message.chunkIndex,
                          !.chunkData = message.chunkData,
                          !.isLast = message.isLast]>>})

handleFileTransferCancel(webSocket, message, fails) ==
    LET targetUser == findUserById(message.targetUserId)
    IN  IF ~registered(webSocket)
        THEN Reply({<<webSocket, Error("User not registered")>>})
        ELSE IF targetUser = 0 \/ fails
        THEN Reply({})
        ELSE Reply({<<targetUser,
                      [Blank EXCEPT
                          !.type = "fileTransferCancelNotification",
                          !.transferId = message.transferId,
                          !.senderId = users[webSocket]]>>})

handleFileChunkAck(webSocket, message, fails) ==
    LET targetUser == findUserById(message.senderId)
    IN  IF ~registered(webSocket)
        THEN Reply({<<webSocket, Error("User not registered")>>})
        ELSE IF targetUser = 0 \/ fails
        THEN Reply({})
        ELSE Reply({<<targetUser,
                      [Blank EXCEPT
                          !.type = "fileChunkAckNotification",
                          !.transferId = message.transferId,
                          !.chunkIndex = message.chunkIndex,
                          !.success = message.success]>>})

handleFileTransferConfirmation(webSocket, message, fails) ==
    LET targetUser == findUserById(message.senderId)
    IN  IF ~registered(webSocket)
        THEN Reply({<<webSocket, Error("User not registered")>>})
        ELSE IF targetUser = 0 \/ fails
        THEN Reply({})
        ELSE Reply({<<targetUser,
                      [Blank EXCEPT
                          !.type = "fileTransferConfirmationNotification",
                          !.transferId = message.transferId,
                          !.success = message.success,
                          !.message = message.message]>>})

\* handleFileStart on a message with valid metadata
handleFileStart(webSocket, message) ==
    IF ~registered(webSocket)
    THEN Reply({<<webSocket, Error("User not registered")>>})
    ELSE Effect(broadcast([Blank EXCEPT !.type = "fileStartNotification",
                                        !.senderId = users[webSocket],
                                        !.fileId = message.fileId],
                          sessions),
                users, sessions, fileTransfers \cup {message.fileId},
                [f \in DOMAIN fileChunks \cup {message.fileId} |->
                    IF f = message.fileId THEN {} ELSE fileChunks[f]])

\* handleFileChunk of the upload protocol; message.chunk and
\* message.encryptedChunk are present exactly in the messages of Uploads
handleFileChunk(webSocket, message) ==
    IF ~registered(webSocket)
    THEN Reply({<<webSocket, Error("User not registered")>>})
    ELSE IF message.fileId \notin fileTransfers
    THEN Reply({<<webSocket, Error("File transfer not found")>>})
    ELSE IF message \notin Uploads
    THEN Reply({<<webSocket, Error("Invalid chunk data")>>})
    ELSE Effect(broadcast([Blank EXCEPT !.type = "fileChunkNotification",
                                        !.senderId = users[webSocket],
                                        !.fileId = message.fileId,
                                        !.chunkIndex = message.chunkIndex],
                          sessions),
                users, sessions, fileTransfers,
                [fileChunks EXCEPT
                    ![message.fileId] = @ \cup {message.chunkIndex}])

\* handleFileComplete up to its setTimeout: the notification is broadcast
handleFileComplete(webSocket, message) ==
    IF ~registered(webSocket)
    THEN Reply({<<webSocket, Error("User not registered")>>})
    ELSE IF message.fileId \notin fileTransfers
    THEN Reply({<<webSocket, Error("File transfer not found")>>})
    ELSE Reply(broadcast([Blank EXCEPT !.type = "fileCompleteNotification",
                                       !.senderId = users[webSocket],
                                       !.fileId = message.fileId],
                         sessions))

\* whether the call reaches the setTimeout of handleFileComplete
schedulesPurge(webSocket, message) ==
    /\ message.type = "fileComplete"
    /\ registered(webSocket)
    /\ message.fileId \in fileTransfers

\* a handleRegister that leaves the user's earlier connection as it is
handleRegisterKeep(webSocket, message) ==
    IF message.publicKey = "undefined"
    THEN Reply({<<webSocket, Error("Invalid public key format")>>})
    ELSE IF message.publicKey = "bad"
    THEN Reply({<<webSocket, Error("Invalid PGP public key format")>>})
    ELSE Effect({<<webSocket, [Blank EXCEPT !.type = "registered",
                                            !.senderId = message.publicKey]>>}
                    \cup broadcast([Blank EXCEPT !.type = "userList"], sessions),
                [users EXCEPT ![webSocket] = message.publicKey],
                sessions, fileTransfers, fileChunks)

\* handleRegister, with the 'registered' reply and broadcastUserList.  The
\* connection it replaces is closed: the broadcast's write to it throws and
\* the catch of broadcast deletes it from sessions
handleRegister(webSocket, message) ==
    IF message.publicKey = "undefined"
    THEN Reply({<<webSocket, Error("Invalid public key format")>>})
    ELSE IF message.publicKey = "bad"
    THEN Reply({<<webSocket, Error("Invalid PGP public key format")>>})
    ELSE LET existing == {c \in Conns \ {webSocket} :
                             users[c] = message.publicKey}
         IN  Effect({<<webSocket, [Blank EXCEPT !.type = "registered",
                                                !.senderId = message.publicKey]>>}
                        \cup broadcast([Blank EXCEPT !.type = "userList"],
                                       sessions \ existing),
                    [c \in Conns |->
                        IF c = webSocket THEN message.publicKey
                        ELSE IF c \in existing THEN "none"
                        ELSE users[c]],
                    sessions \ existing, fileTransfers, fileChunks)

\* the connections handleRegister closes: those of the user id the key
\* yields, other than the registering one
closesExisting(webSocket, message) ==
    IF message.type = "register" /\ message.publicKey \in Ids
    THEN {c \in Conns \ {webSocket} : users[c] = message.publicKey}
    ELSE {}

\* handleMessage: the switch on message.type
handleMessage(webSocket, message, fails) ==
    CASE message.type = "register" -> handleRegister(webSocket, message)
      [] message.type = "fileStart" -> handleFileStart(webSocket, message)
      [] message.type = "fileChunk" -> handleFileChunk(webSocket, message)
      [] message.type = "fileComplete" ->
             handleFileComplete(webSocket, message)
      [] message.type = "fileTransferRequest" ->
             handleFileTransferRequest(webSocket, message, fails)
      [] message.type = "fileTransferResponse" ->
             handleFileTransferResponse(webSocket, message, fails)
      [] message.type = "realtimeFileChunk" ->
             handleFileTransferChunk(webSocket, message, fails)
      [] message.type = "fileTransferCancel" ->
             handleFileTransferCancel(webSocket, message, fails)
      [] message.type = "fileChunkAck" ->
             handleFileChunkAck(webSocket, message, fails)
      [] message.type = "fileTransferConfirmation" ->
             handleFileTransferConfirmation(webSocket, message, fails)
      [] OTHER -> Reply({<<webSocket, Error("Unknown message type")>>})

\* a client writes a message to its connection
SocketSend(webSocket, message) ==
    /\ roomPc = "idle"
    /\ webSocket \in sessions
    /\ roomPc' = "received"
    /\ lastFrom' = webSocket
    /\ lastMsg' = message
    /\ UNCHANGED <<roomState, sendFails, delivered, purgeTimers, registering,
                   closing>>
    /\ UNCHANGED notRelay

SendRegister ==
    \E webSocket \in Conns, message \in Registers :
        SocketSend(webSocket, message)

SendUpload ==
    \E webSocket \in Conns, message \in Uploads :
        SocketSend(webSocket, message)

SendTransferRequest ==
    \E webSocket \in Conns, message \in Requests :
        SocketSend(webSocket, message)

SendTransferResponse ==
    \E webSocket \in Conns, message \in Responses :
        SocketSend(webSocket, message)

SendChunk ==
    \E webSocket \in Conns, message \in ClientChunks \cup OtherChunks :
        SocketSend(webSocket, message)

SendChunkAck ==
    \E webSocket \in Conns, message \in Acks : SocketSend(webSocket, message)

SendConfirmation ==
    \E webSocket \in Conns, message \in Confirmations :
        SocketSend(webSocket, message)

SendCancel ==
    \E webSocket \in Conns, message \in Cancels :
        SocketSend(webSocket, message)

SendStatus ==
    \E webSocket \in Conns, message \in StatusMessages :
        SocketSend(webSocket, message)

\* the message listener of handleSession: one call of handleMessage.  fails
\* says that the write to the target's socket throws; it is chosen only
\* where the call reaches that write
RoomMessage ==
    /\ roomPc = "received"
    /\ roomPc' = "handled"
    /\ \E fails \in BOOLEAN :
        /\ fails => handleMessage(lastFrom, lastMsg, TRUE)
                        # handleMessage(lastFrom, lastMsg, FALSE)
        /\ LET e == handleMessage(lastFrom, lastMsg, fails)
           IN  /\ users' = e.users
               /\ sessions' = e.sessions
               /\ fileTransfers' = e.fileTransfers
               /\ fileChunks' = e.fileChunks
               /\ delivered' = e.out
        /\ sendFails' = fails
    /\ purgeTimers' = IF schedulesPurge(lastFrom, lastMsg)
                      THEN [purgeTimers EXCEPT ![lastMsg.fileId] = @ + 1]
                      ELSE purgeTimers
    /\ closing' = closesExisting(lastFrom, lastMsg)
    /\ UNCHANGED <<lastFrom, lastMsg, registering>>
    /\ UNCHANGED notRelay

\* fetch and handleSession: a connection is accepted
HandleSession ==
    /\ roomPc = "idle"
    /\ roomPc' = "handled"
    /\ \E webSocket \in Conns \ sessions :
        /\ sessions' = sessions \cup {webSocket}
        /\ lastFrom' = webSocket
    /\ lastMsg' = [Blank EXCEPT !.type = "open"]
    /\ UNCHANGED <<users, fileTransfers, fileChunks, sendFails, delivered,
                   purgeTimers, registering, closing>>
    /\ UNCHANGED notRelay

\* the close or error event of a connection: handleDisconnect
HandleDisconnect ==
    /\ roomPc = "idle"
    /\ roomPc' = "handled"
    /\ \E webSocket \in sessions :
        /\ sessions' = sessions \ {webSocket}
        /\ users' = [users EXCEPT ![webSocket] = "none"]
        /\ lastFrom' = webSocket
        /\ delivered' = broadcast([Blank EXCEPT !.type = "userList"],
                                  sessions \ {webSocket})
    /\ lastMsg' = [Blank EXCEPT !.type = "close"]
    /\ UNCHANGED <<fileTransfers, fileChunks, sendFails, purgeTimers,
                   registering, closing>>
    /\ UNCHANGED notRelay

\* the event is over: what the room wrote has left its sockets
EventDone ==
    /\ roomPc = "handled"
    /\ roomPc' = "idle"
    /\ lastFrom' = 0
    /\ lastMsg' = Blank
    /\ sendFails' = FALSE
    /\ delivered' = {}
    /\ closing' = {}
    /\ UNCHANGED <<roomState, purgeTimers, registering>>
    /\ UNCHANGED notRelay

InitRelay ==
    /\ file = <<>>
    /\ chunkSize = 1
    /\ IdleFT
    /\ aTotal = 0
    /\ IdleAck
    /\ IdleRc
    /\ IdleMock
    /\ IdleRelay
    /\ ccTotal = 0
    /\ ccNetSpeed = 0
    /\ IdleConc
    /\ IdleOffer
    /\ IdleChunkAck

NextRelay ==
    \/ HandleSession
    \/ HandleDisconnect
    \/ SendRegister
    \/ SendUpload
    \/ SendTransferRequest
    \/ SendTransferResponse
    \/ SendChunk
    \/ SendChunkAck
    \/ SendConfirmation
    \/ SendCancel
    \/ SendStatus
    \/ RoomMessage
    \/ EventDone

SpecRelay == InitRelay /\ [][NextRelay]_vars

\* the messages of the senders that carry a budgeted chunk length
Budgeted(message) ==
    /\ message.type \in {"fileTransferRequest", "fileChunk",
                         "realtimeFileChunk"}
    /\ message.fileSize >= 0
    /\ message.chunkSize > 0

\* C12: for every payload length L the chunk length calculateOptimalChunkSize
\* returns, times 4/3 for base64 and times 1.25 for the JSON envelope, is at
\* most 750 KiB: chunkSize * 4 * 125 <= 750 * 1024 * 3 * 100, for the chunk
\* length of every request and chunk envelope a sender hands to the room.
C12_BudgetWithinCeiling ==
    Budgeted(lastMsg) =>
        /\ lastMsg.chunkSize = calculateOptimalChunkSize(lastMsg.fileSize)
        /\ lastMsg.chunkSize * 4 * 125 <= maxSafeMessageSize * 3 * 100

\* the room has forwarded the request for a payload of 100 MB, whose chunk
\* length is that of the highest tier
C12_Witness ==
    /\ roomPc = "handled"
    /\ lastMsg.type = "fileTransferRequest"
    /\ lastMsg.fileSize = 100 * 1024 * 1024
    /\ lastMsg.chunkSize = 400 * 1024
    /\ \E c \in Conns :
        /\ c # lastFrom
        /\ delivered =
               {<<c, [Blank EXCEPT
                         !.type = "fileTransferRequestNotification",
                         !.transferId = lastMsg.transferId,
                         !.senderId = users[lastFrom],
                         !.fileSize = lastMsg.fileSize,
                         !.chunkSize = lastMsg.chunkSize]>>}

\* what handleFileTransferChunk writes to the target for this message
ChunkNotification(from, message) ==
    [Blank EXCEPT !.type = "realtimeFileChunkNotification",
                  !.transferId = message.transferId,
                  !.senderId = users[from],
                  !.chunkIndex = message.chunkIndex,
                  !.chunkData = message.chunkData,
                  !.isLast = message.isLast]

\* C13: a chunk envelope a sender builds from the budgeted chunk length has a
\* payload string no longer than the room's ceiling, and the room answers no
\* such envelope with 'Chunk too large'; handed to handleFileTransferChunk by
\* a registered user for a registered target whose socket takes the write,
\* it is forwarded.
C13_BudgetedChunkPasses ==
    (Budgeted(lastMsg) /\ lastMsg.type # "fileTransferRequest") =>
        /\ lastMsg.chunkData <= maxChunkSize
        /\ \A c \in Conns : <<c, Error("Chunk too large")>> \notin delivered
        /\ ( /\ roomPc = "handled"
             /\ lastMsg.type = "realtimeFileChunk"
             /\ registered(lastFrom)
             /\ findUserById(lastMsg.targetUserId) # 0
             /\ ~sendFails )
           => delivered = {<<findUserById(lastMsg.targetUserId),
                             ChunkNotification(lastFrom, lastMsg)>>}

\* the room has forwarded a full chunk of the highest tier (400 KiB, 546136
\* characters of base64)
C13_Witness ==
    /\ roomPc = "handled"
    /\ lastMsg.type = "realtimeFileChunk"
    /\ lastMsg.fileSize = 100 * 1024 * 1024
    /\ lastMsg.chunkData = 546136
    /\ \E c \in Conns \ {lastFrom} :
        delivered = {<<c, ChunkNotification(lastFrom, lastMsg)>>}

\* C16: a realtimeFileChunk whose payload string is longer than the ceiling
\* is written to no connection but the sender's, and the sender is written
\* exactly one error: 'Chunk too large' when the sender is registered and the
\* target is registered (the two tests that precede the size test).
C16_OversizeRejected ==
    ( /\ roomPc = "handled"
      /\ lastMsg.type = "realtimeFileChunk"
      /\ lastMsg.chunkData > maxChunkSize )
    => /\ \A d \in delivered : d[1] = lastFrom /\ d[2].type = "error"
       /\ Cardinality(delivered) = 1
       /\ (registered(lastFrom) /\ findUserById(lastMsg.targetUserId) # 0)
              => delivered = {<<lastFrom, Error("Chunk too large")>>}

\* a registered user sent a chunk of maxChunkSize + 1 characters to a
\* registered target and was answered 'Chunk too large'
C16_Witness ==
    /\ roomPc = "handled"
    /\ lastMsg.type = "realtimeFileChunk"
    /\ lastMsg.chunkData = maxChunkSize + 1
    /\ registered(lastFrom)
    /\ findUserById(lastMsg.targetUserId) \notin {0, lastFrom}
    /\ delivered = {<<lastFrom, Error("Chunk too large")>>}

\* the message types handleMessage hands to the six relaying handlers
RelayedTypes == {"fileTransferRequest", "fileTransferResponse",
                 "realtimeFileChunk", "fileTransferCancel", "fileChunkAck",
                 "fileTransferConfirmation"}

\* the message types of the transfer managers that have no relaying handler
UnrelayedTypes == {"fileChunk", "fileTransferStatusRequest",
                   "fileTransferStatusResponse"}

\* the envelopes of the transfer managers, as against the messages of the
\* room's upload protocol, which carry a fileId
TransferEnvelope(message) ==
    /\ message.type \in RelayedTypes \cup UnrelayedTypes
    /\ message.fileId = "undefined"

\* the user id an envelope addresses, which a relaying handler looks up:
\* message.targetUserId in a request, chunk, cancel or status query,
\* message.senderId in a response, ack or confirmation
Addressed(message) ==
    IF message.type \in {"fileTransferRequest", "realtimeFileChunk",
                         "fileChunk", "fileTransferCancel",
                         "fileTransferStatusRequest"}
    THEN message.targetUserId
    ELSE message.senderId

\* C17: the room writes a forwarded transfer envelope only when the sending
\* connection has a registered user, and only to the connection registered
\* under the id the envelope addresses; a transfer envelope from a connection
\* without a registered user is written to no other connection and is
\* answered 'User not registered' by every handler it can reach.
C17_ForwardOnlyRegistered ==
    (roomPc = "handled" /\ TransferEnvelope(lastMsg))
    => /\ \A d \in delivered :
              d[2].type # "error" =>
                  /\ lastMsg.type \in RelayedTypes
                  /\ users[lastFrom] # "none"
                  /\ users[d[1]] = Addressed(lastMsg)
       /\ users[lastFrom] = "none" =>
              /\ \A d \in delivered : d[1] = lastFrom
              /\ lastMsg.type \in RelayedTypes \cup {"fileChunk"}
                     => delivered
                            = {<<lastFrom, Error("User not registered")>>}

\* a connection that is open and not registered sent a request that names a
\* registered user and was answered 'User not registered'
C17_Witness ==
    /\ roomPc = "handled"
    /\ lastMsg.type = "fileTransferRequest"
    /\ lastMsg.fileSize > 0
    /\ ~registered(lastFrom)
    /\ findUserById(lastMsg.targetUserId) # 0
    /\ delivered = {<<lastFrom, Error("User not registered")>>}

\* C18: when the room forwards a chunk envelope, every field the sender set
\* (transferId, chunkIndex, the payload string, isLast, requireAck) is in
\* what the target is written, with the same value.
C18_ChunkForwardedVerbatim ==
    (roomPc = "handled" /\ lastMsg.type = "realtimeFileChunk")
    => \A d \in delivered :
           d[2].type # "error" =>
               /\ d[2].transferId = lastMsg.transferId
               /\ d[2].chunkIndex = lastMsg.chunkIndex
               /\ d[2].chunkData = lastMsg.chunkData
               /\ d[2].isLast = lastMsg.isLast
               /\ d[2].requireAck = lastMsg.requireAck

\* C19: every envelope kind a send or receive session emits is taken by the
\* dispatcher and routed: sent by a registered user and addressed to a
\* registered user whose socket takes the write, an envelope with valid
\* metadata and a payload within the ceiling is written to the connection of
\* the addressed user, and the sender is written no error.
C19_EveryKindRouted ==
    ( /\ roomPc = "handled"
      /\ TransferEnvelope(lastMsg)
      /\ users[lastFrom] # "none"
      /\ findUserById(Addressed(lastMsg)) # 0
      /\ lastMsg.type = "fileTransferRequest" => lastMsg.fileSize > 0
      /\ lastMsg.chunkData <= maxChunkSize
      /\ ~sendFails )
    => /\ \E d \in delivered :
              /\ d[1] = findUserById(Addressed(lastMsg))
              /\ d[2].type # "error"
       /\ \A d \in delivered : d[2].type # "error"

\* C20: a call of a relaying handler (request, response, chunk, ack,
\* confirmation, cancel) leaves the room's state as it was, whether it
\* forwards, answers an error or drops the envelope: users, sessions,
\* fileTransfers and fileChunks are the same before and after the call.
C20_RelayKeepsNoState ==
    [][( /\ roomPc = "received"
         /\ roomPc' = "handled"
         /\ lastMsg.type \in RelayedTypes )
       => /\ users' = users
          /\ sessions' = sessions
          /\ fileTransfers' = fileTransfers
          /\ fileChunks' = fileChunks]_vars

\* the room holds an upload with both chunks stored and has just forwarded a
\* chunk of a transfer
C20_Witness ==
    /\ roomPc = "handled"
    /\ lastMsg.type = "realtimeFileChunk"
    /\ \E c \in Conns \ {lastFrom} :
        delivered = {<<c, ChunkNotification(lastFrom, lastMsg)>>}
    /\ fileTransfers = {"f1"}
    /\ fileChunks = [f \in {"f1"} |-> {0, 1}]

\* C21: whenever the write of a forwarded envelope to the target's socket
\* throws, the same handler call writes an error to the sending connection,
\* for every relayed kind (request, response, chunk, ack, confirmation,
\* cancel).
C21_FailedWriteReported ==
    (roomPc = "handled" /\ lastMsg.type \in RelayedTypes /\ sendFails)
    => \E d \in delivered : d[1] = lastFrom /\ d[2].type = "error"

(***************************************************************************)
(* ConcurrentTransferManager of src/test-concurrent-transfer.js: a         *)
(* transfer simulated on a manager as constructed.  Every worker is one    *)
(* call of simulateWorker; a step of a worker runs from the end of its     *)
(* timer to its next await.  Date.now() is not modelled: whether a second  *)
(* has passed since the last speed check or the last adjustment is chosen  *)
(* at each completion, and the speed the monitor computes is ccNetSpeed.   *)
(***************************************************************************)
\* the speeds measured, in KB/s: one on each side of 50..100 and of 200..300
Speeds == {40, 250, 400}

Max(a, b) == IF a > b THEN a ELSE b

\* Math.round(base * multiplier) with the multiplier in tenths
RoundTenths(base, tenths) == (2 * base * tenths + 10) \div 20

calculateConcurrency(chunkCount, speed) ==
    LET baseConcurrency ==
            IF chunkCount < 100 THEN Min(4, chunkCount)
            ELSE IF chunkCount < 1000 THEN 8
            ELSE IF chunkCount < 10000 THEN 12
            ELSE 16
        speedMultiplier ==
            IF speed > 500 THEN 15
            ELSE IF speed > 200 THEN 12
            ELSE IF speed < 50 THEN 7
            ELSE 10
        adjustedConcurrency == RoundTenths(baseConcurrency, speedMultiplier)
    IN  Max(minConcurrency, Min(maxConcurrency, adjustedConcurrency))

\* a getNextChunk that returns the counter and leaves it
getNextChunkStale(next, chunkCount) ==
    IF next >= chunkCount
    THEN [chunk |-> -1, next |-> next]
    ELSE [chunk |-> next, next |-> next]

\* getNextChunk: the index returned (-1 for null) and the counter after it
getNextChunk(next, chunkCount) ==
    IF next >= chunkCount
    THEN [chunk |-> -1, next |-> next]
    ELSE [chunk |-> next, next |-> next + 1]

\* the bookkeeping of one getNextChunk call made by a worker
Take(st, chunkCount) ==
    LET g == getNextChunk(st.next, chunkCount)
    IN  [chunk |-> g.chunk,
         next |-> g.next,
         handed |-> IF g.chunk >= 0
                    THEN [st.handed EXCEPT ![g.chunk] = @ + 1]
                    ELSE st.handed]

\* the loop that creates the workers: each runs to its first await
RECURSIVE startWorkers(_, _, _, _)
startWorkers(i, concurrency, chunkCount, st) ==
    IF i > concurrency
    THEN st
    ELSE LET t == Take(st, chunkCount)
         IN  startWorkers(i + 1, concurrency, chunkCount,
                          [workers |-> Append(st.workers, t.chunk),
                           next |-> t.next,
                           handed |-> t.handed])

RECURSIVE SumSeq(_)
SumSeq(q) == IF q = <<>> THEN 0 ELSE Head(q) + SumSeq(Tail(q))

getAverageSpeed(history) ==
    IF Len(history) = 0 THEN 0 ELSE SumSeq(history) \div Len(history)

\* a window that, once full, drops the sample that arrives
pushSpeedKeepOldest(history, speed) ==
    LET pushed == Append(history, speed)
    IN  IF Len(pushed) > maxHistorySize THEN SubSeq(pushed, 1, maxHistorySize)
        ELSE pushed

\* updateBandwidthMonitor when a second has passed since the last check
pushSpeed(history, speed) ==
    LET pushed == Append(history, speed)
    IN  IF Len(pushed) > maxHistorySize THEN Tail(pushed) ELSE pushed

\* adjustConcurrencyDynamically past its interval
adjusted(concurrency, avgSpeed) ==
    IF avgSpeed > 300 THEN Min(maxConcurrency, concurrency + 2)
    ELSE IF avgSpeed < 100 THEN Max(minConcurrency, concurrency - 1)
    ELSE concurrency

\* simulateConcurrentTransfer up to its await of the workers
SimulateConcurrentTransfer ==
    /\ ccPc = "new"
    /\ LET concurrency == calculateConcurrency(ccTotal, currentSpeed)
           st == startWorkers(1, concurrency, ccTotal,
                              [workers |-> <<>>, next |-> 0,
                               handed |-> [i \in 0..(ccTotal - 1) |-> 0]])
       IN  /\ ccWorkers' = st.workers
           /\ ccNext' = st.next
           /\ ccHanded' = st.handed
    /\ ccPc' = "running"
    /\ UNCHANGED <<ccTotal, ccNetSpeed, ccCompleted, currentConcurrency,
                   currentSpeed, speedHistory, speedLog, ccResult>>
    /\ UNCHANGED notConc

\* the timer of worker w ends: onChunkComplete, then the next turn of the loop
SimulateWorker(w) ==
    /\ ccPc = "running"
    /\ w \in 1..Len(ccWorkers)
    /\ ccWorkers[w] >= 0
    /\ ccCompleted' = ccCompleted + 1
    \* the first call only sets startTime and lastSpeedCheck
    /\ \E checkDue \in IF ccCompleted = 0 THEN {FALSE} ELSE BOOLEAN :
           /\ speedHistory' = IF checkDue
                              THEN pushSpeed(speedHistory, ccNetSpeed)
                              ELSE speedHistory
           /\ speedLog' = IF checkDue THEN Append(speedLog, ccNetSpeed)
                          ELSE speedLog
           /\ currentSpeed' = IF checkDue THEN ccNetSpeed ELSE currentSpeed
    \* lastAdjustTime starts at 0, so the first call is past the interval
    /\ \E adjustDue \in IF ccCompleted = 0 THEN {TRUE} ELSE BOOLEAN :
           currentConcurrency' =
               IF adjustDue
               THEN adjusted(currentConcurrency, getAverageSpeed(speedHistory'))
               ELSE currentConcurrency
    /\ LET t == Take([next |-> ccNext, handed |-> ccHanded], ccTotal)
       IN  /\ ccWorkers' = [ccWorkers EXCEPT ![w] = t.chunk]
           /\ ccNext' = t.next
           /\ ccHanded' = t.handed
    /\ UNCHANGED <<ccPc, ccTotal, ccNetSpeed, ccResult>>
    /\ UNCHANGED notConc

\* Promise.all(workers) resolves and the result is returned
WorkersDone ==
    /\ ccPc = "running"
    /\ \A w \in 1..Len(ccWorkers) : ccWorkers[w] = -1
    /\ ccPc' = "finished"
    /\ ccResult' = ccCompleted
    /\ UNCHANGED <<ccTotal, ccNetSpeed, ccWorkers, ccNext, ccCompleted,
                   ccHanded, currentConcurrency, currentSpeed, speedHistory,
                   speedLog>>
    /\ UNCHANGED notConc

InitConc ==
    /\ file = <<>>
    /\ chunkSize = 1
    /\ IdleFT
    /\ aTotal = 0
    /\ IdleAck
    /\ IdleRc
    /\ IdleMock
    /\ IdleRelay
    /\ ccTotal \in 1..MaxCcChunks
    /\ ccNetSpeed \in Speeds
    /\ IdleConc
    /\ IdleOffer
    /\ IdleChunkAck

NextConc ==
    \/ SimulateConcurrentTransfer
    \/ \E w \in 1..maxConcurrency : SimulateWorker(w)
    \/ WorkersDone

SpecConc == InitConc /\ [][NextConc]_vars

\* updateBandwidthMonitor is called a second or more after the last check
\* and computes the sample speed
UpdateBandwidthMonitor(speed) ==
    /\ Len(speedLog) < MaxSamples
    /\ currentSpeed' = speed
    /\ speedHistory' = pushSpeed(speedHistory, speed)
    /\ speedLog' = Append(speedLog, speed)
    /\ UNCHANGED <<ccPc, ccTotal, ccNetSpeed, ccWorkers, ccNext, ccCompleted,
                   ccHanded, currentConcurrency, ccResult>>
    /\ UNCHANGED notConc

\* adjustConcurrencyDynamically past its interval, between two samples
AdjustConcurrencyDynamically ==
    /\ speedLog # <<>>
    /\ currentConcurrency' =
           adjusted(currentConcurrency, getAverageSpeed(speedHistory))
    /\ UNCHANGED <<ccPc, ccTotal, ccNetSpeed, ccWorkers, ccNext, ccCompleted,
                   ccHanded, currentSpeed, speedHistory, speedLog, ccResult>>
    /\ UNCHANGED notConc

\* the samples handed to the monitor, in KB/s: a slow and a fast one
Samples == {40, 400}

InitMonitor ==
    /\ file = <<>>
    /\ chunkSize = 1
    /\ IdleFT
    /\ aTotal = 0
    /\ IdleAck
    /\ IdleRc
    /\ IdleMock
    /\ IdleRelay
    /\ ccTotal = 0
    /\ ccNetSpeed = 0
    /\ IdleConc
    /\ IdleOffer
    /\ IdleChunkAck

NextMonitor ==
    \/ \E speed \in Samples : UpdateBandwidthMonitor(speed)
    \/ AdjustConcurrencyDynamically

\* the bandwidth monitor of a ConcurrentTransferManager handed samples
SpecMonitor == InitMonitor /\ [][NextMonitor]_vars

\* the last n elements of a sequence
LastOf(s, n) == SubSeq(s, Len(s) - n + 1, Len(s))

\* C34: the sample window never holds more than maxHistorySize samples and
\* is always the most recent samples in their order of arrival; a sample
\* added to a full window evicts the oldest one
C34_WindowIsMostRecent ==
    /\ [](/\ Len(speedHistory) <= maxHistorySize
          /\ speedHistory = LastOf(speedLog, Min(Len(speedLog), maxHistorySize)))
    /\ [][(speedLog' # speedLog /\ Len(speedHistory) = maxHistorySize)
              => speedHistory' = Append(Tail(speedHistory),
                                        speedLog'[Len(speedLog')])]_vars

\* an 11th sample has evicted the first, which differed from the second
C34_Witness ==
    /\ Len(speedLog) = maxHistorySize + 1
    /\ Len(speedHistory) = maxHistorySize
    /\ speedLog[1] # speedLog[2]
    /\ speedHistory[1] = speedLog[2]
    /\ speedHistory[maxHistorySize] = speedLog[maxHistorySize + 1]
    /\ speedHistory[maxHistorySize] # speedLog[1]

\* the chunks handed to a worker whose timer has not ended
InFlight == {w \in 1..Len(ccWorkers) : ccWorkers[w] >= 0}

\* C24: the chunks in flight are never more than the current window, and
\* the window stays between its minimum, which is at least 1, and its
\* configured maximum
C24_InFlightWithinWindow ==
    /\ Cardinality(InFlight) <= currentConcurrency
    /\ minConcurrency >= 1
    /\ currentConcurrency >= minConcurrency
    /\ currentConcurrency <= maxConcurrency

\* C25: every index below the counter was handed out once and no index at
\* or above it was, the workers in flight hold different indices, and a
\* transfer whose workers all ended reports as many completed chunks as
\* the transfer has
C25_EachIndexOnce ==
    ccPc # "new" =>
        /\ \A i \in 0..(ccTotal - 1) :
               ccHanded[i] = IF i < ccNext THEN 1 ELSE 0
        /\ \A v, w \in InFlight : ccWorkers[v] = ccWorkers[w] => v = w
        /\ ccPc = "finished" => (ccNext = ccTotal /\ ccResult = ccTotal)

C25_Witness ==
    /\ ccPc = "finished"
    /\ Len(ccWorkers) = 3
    /\ ccTotal >= 4
    /\ ccResult = ccTotal
    /\ \A i \in 0..(ccTotal - 1) : ccHanded[i] = 1

(***************************************************************************)
(* FileTransferManager.handleTransferRequest on the receiving endpoint.    *)
(* A content type is the sequence of its characters.  The transfer ids of  *)
(* the requests differ, as generateTransferId makes them.                  *)
(***************************************************************************)
ImagePrefix == <<"i", "m", "a", "g", "e", "/">>
VideoPrefix == <<"v", "i", "d", "e", "o", "/">>

\* the declared content types: image/p, video/m, video/, text/p, image,
\* imagery/x, Image/p and the empty type of a file the browser cannot name
FileTypes ==
    {ImagePrefix \o <<"p">>,
     VideoPrefix \o <<"m">>,
     VideoPrefix,
     <<"t", "e", "x", "t", "/", "p">>,
     <<"i", "m", "a", "g", "e">>,
     <<"i", "m", "a", "g", "e", "r", "y", "/", "x">>,
     <<"I", "m", "a", "g", "e", "/", "p">>,
     <<>>}

\* String.prototype.startsWith
startsWith(string, prefix) ==
    /\ Len(string) >= Len(prefix)
    /\ SubSeq(string, 1, Len(prefix)) = prefix

\* a test for the names image and video without the slash after them
isMediaFileLoose(fileType) ==
    \/ startsWith(fileType, SubSeq(ImagePrefix, 1, 5))
    \/ startsWith(fileType, SubSeq(VideoPrefix, 1, 5))

isMediaFile(fileType) ==
    startsWith(fileType, ImagePrefix) \/ startsWith(fileType, VideoPrefix)

\* a sender's fileTransferRequest, relayed by the room, is on its way
TransferRequestSent ==
    /\ rqIssued < MaxRequests
    /\ rqIssued' = rqIssued + 1
    /\ \E fileType \in FileTypes :
           rqNet' = rqNet \cup {[transferId |-> rqIssued + 1,
                                 fileType |-> fileType]}
    /\ UNCHANGED <<rqLog, rqAsked, rqResponses, rqSessions>>
    /\ UNCHANGED notOffer

\* handleTransferRequest; confirm() blocks, so the handler is one step
handleTransferRequest ==
    \E message \in rqNet :
        /\ rqNet' = rqNet \ {message}
        /\ rqLog' = Append(rqLog, message)
        /\ \E answer \in BOOLEAN :
            LET media == isMediaFile(message.fileType)
                accept == IF media THEN TRUE ELSE answer
            IN  /\ media => answer
                /\ rqAsked' = IF media THEN rqAsked
                              ELSE rqAsked \cup {<<message.transferId, answer>>}
                /\ rqResponses' = Append(rqResponses,
                                         [transferId |-> message.transferId,
                                          accepted |-> accept])
                /\ rqSessions' = IF accept
                                 THEN rqSessions \cup {message.transferId}
                                 ELSE rqSessions
        /\ UNCHANGED rqIssued
        /\ UNCHANGED notOffer

InitOffer ==
    /\ file = <<>>
    /\ chunkSize = 1
    /\ IdleFT
    /\ aTotal = 0
    /\ IdleAck
    /\ IdleRc
    /\ IdleMock
    /\ IdleRelay
    /\ ccTotal = 0
    /\ ccNetSpeed = 0
    /\ IdleConc
    /\ IdleOffer
    /\ IdleChunkAck

NextOffer ==
    \/ TransferRequestSent
    \/ handleTransferRequest

SpecOffer == InitOffer /\ [][NextOffer]_vars

\* the content types of the model that are image/* or video/*
MediaTypes ==
    {<<"i", "m", "a", "g", "e", "/", "p">>,
     <<"v", "i", "d", "e", "o", "/", "m">>,
     <<"v", "i", "d", "e", "o", "/">>}

\* C27: each request handled has one response, which carries its decision;
\* its receive session exists exactly if the decision is to accept; for a
\* content type image/* or video/* the decision is to accept and the user
\* was not asked, and for any other type the user was asked once and the
\* decision is the answer.  No other response is sent.
C27_OneResponsePerRequest ==
    /\ Len(rqResponses) = Len(rqLog)
    /\ \A i \in 1..Len(rqLog) :
        LET id == rqLog[i].transferId
            decisions == {k \in 1..Len(rqResponses) :
                              rqResponses[k].transferId = id}
            answers == {a \in rqAsked : a[1] = id}
        IN  /\ Cardinality(decisions) = 1
            /\ \A k \in decisions :
                /\ rqResponses[k].accepted <=> id \in rqSessions
                /\ IF rqLog[i].fileType \in MediaTypes
                   THEN rqResponses[k].accepted /\ answers = {}
                   ELSE answers = {<<id, rqResponses[k].accepted>>}

\* one request of a media type accepted unasked, one of another type
\* refused by the user
C27_Witness ==
    /\ Len(rqLog) = 2
    /\ \E i, j \in 1..2 :
        /\ rqLog[i].fileType \in MediaTypes
        /\ rqLog[i].transferId \in rqSessions
        /\ rqLog[j].fileType \notin MediaTypes
        /\ <<rqLog[j].transferId, FALSE>> \in rqAsked
        /\ rqLog[j].transferId \notin rqSessions

(***************************************************************************)
(* part_003: handleFileChunk of the receiver that acknowledges chunks.     *)
(* An envelope is its chunkIndex, the kind of value its chunkData is and   *)
(* its requireAck, which a sender may leave out.                           *)
(***************************************************************************)
\* chunkData: a base64 string, the empty string (falsy, as a missing field
\* is), a number
ChunkDataKinds == {"string", "empty", "number"}
AckRequests == {"true", "false", "undefined"}

Envelopes(total) ==
    [chunkIndex : 0..(total - 1), chunkData : ChunkDataKinds,
     requireAck : AckRequests]

\* the negation of: !chunkData || typeof chunkData !== 'string'
validChunkData(chunkData) == chunkData = "string"

\* an acknowledgment owed to every envelope that does not refuse it
requireAckUnlessRefused(requireAck) == requireAck # "false"

\* if (requireAck)
requireAckSet(requireAck) == requireAck = "true"

\* a sender's chunk envelope, relayed by the room, arrives: the socket
\* delivers one message event at a time
ChunkEnvelopeSent ==
    /\ kSent < MaxEnvelopes
    /\ kNet = {}
    /\ kSent' = kSent + 1
    /\ \E envelope \in Envelopes(kTotal) : kNet' = kNet \cup {envelope}
    /\ UNCHANGED <<kSession, kTotal, kStored, kHandled, kAcks, kAssembling>>
    /\ UNCHANGED notChunkAck

\* handleFileChunk: the try block, or its catch after 'Invalid chunk data';
\* assembleReceivedFile, called once every declared chunk is stored, runs in
\* this step up to its await of the digest
ReceiverHandleFileChunk ==
    /\ \E message \in kNet :
        /\ kNet' = kNet \ {message}
        /\ IF ~kSession
           THEN UNCHANGED <<kStored, kHandled, kAcks, kAssembling>>
           ELSE /\ kHandled' = Append(kHandled, message)
                /\ kStored' = IF validChunkData(message.chunkData)
                              THEN kStored \cup {message.chunkIndex}
                              ELSE kStored
                /\ kAcks' = IF requireAckSet(message.requireAck)
                            THEN Append(kAcks,
                                        [chunkIndex |-> message.chunkIndex,
                                         success |-> validChunkData(message.chunkData)])
                            ELSE kAcks
                /\ kAssembling' =
                       IF validChunkData(message.chunkData)
                              /\ Cardinality(kStored') = kTotal
                       THEN kAssembling + 1
                       ELSE kAssembling
    /\ UNCHANGED <<kSession, kTotal, kSent>>
    /\ UNCHANGED notChunkAck

\* assembleReceivedFile after the digest: confirmation, report, and the
\* finally that deletes the session
ReceiverAssembled ==
    /\ kAssembling > 0
    /\ kAssembling' = kAssembling - 1
    /\ kSession' = FALSE
    /\ UNCHANGED <<kTotal, kStored, kSent, kNet, kHandled, kAcks>>
    /\ UNCHANGED notChunkAck

\* a receive session as handleTransferRequest creates it
InitChunkAck ==
    /\ file = <<>>
    /\ chunkSize = 1
    /\ IdleFT
    /\ aTotal = 0
    /\ IdleAck
    /\ IdleRc
    /\ IdleMock
    /\ IdleRelay
    /\ ccTotal = 0
    /\ ccNetSpeed = 0
    /\ IdleConc
    /\ IdleOffer
    /\ kSession = TRUE
    /\ kTotal \in 1..MaxAckChunks
    /\ kStored = {}
    /\ kSent = 0
    /\ kNet = {}
    /\ kHandled = <<>>
    /\ kAcks = <<>>
    /\ kAssembling = 0

NextChunkAck ==
    \/ ChunkEnvelopeSent
    \/ ReceiverHandleFileChunk
    \/ ReceiverAssembled

SpecChunkAck == InitChunkAck /\ [][NextChunkAck]_vars

\* the handled envelopes that carry requireAck: true, in the order handled
Requesting == SelectSeq(kHandled, LAMBDA e : e.requireAck = "true")

\* C30: the acknowledgments sent are, in order, one for each envelope handed
\* to the session with requireAck: true, for that envelope's index; one
\* with success = true is for an index that is stored and for an envelope
\* with string data, one with success = false is for an envelope whose data
\* was refused; an index is stored only from an envelope with string data
C30_OneAckPerRequest ==
    /\ Len(kAcks) = Len(Requesting)
    /\ \A i \in 1..Len(kAcks) :
        /\ kAcks[i].chunkIndex = Requesting[i].chunkIndex
        /\ kAcks[i].success <=> Requesting[i].chunkData = "string"
        /\ kAcks[i].success => kAcks[i].chunkIndex \in kStored
    /\ \A c \in kStored :
           \E i \in 1..Len(kHandled) :
               kHandled[i].chunkIndex = c /\ kHandled[i].chunkData = "string"

\* three envelopes handled: one acknowledged with success, one with
\* failure, one that asked for no acknowledgment and got none
C30_Witness ==
    /\ Len(kHandled) = 3
    /\ Len(kAcks) = 2
    /\ \E i, j \in 1..2 : kAcks[i].success /\ ~kAcks[j].success
    /\ \E i \in 1..3 : kHandled[i].requireAck # "true"

\* C39: no two connections are registered under one user id; a register
\* call leaves the id on the registering connection alone, the connection
\* that held it being deleted from users and closed; and a forwarded
\* transfer envelope is written to the one connection of the id it addresses.
C39_OneConnectionPerUser ==
    /\ \A c, d \in Conns :
           (users[c] # "none" /\ users[c] = users[d]) => c = d
    /\ (roomPc = "handled" /\ lastMsg.type = "register"
            /\ lastMsg.publicKey \in Ids)
           => /\ users[lastFrom] = lastMsg.publicKey
              /\ \A c \in closing : users[c] = "none" /\ c \notin sessions
    /\ (roomPc = "handled" /\ TransferEnvelope(lastMsg))
           => \A d \in delivered :
                  d[2].type # "error"
                      => /\ d[1] = findUserById(Addressed(lastMsg))
                         /\ \A c \in Conns \ {d[1]} :
                                users[c] # Addressed(lastMsg)

\* a register call has taken the id u1 over from another connection, which
\* it closed
C39_Witness ==
    /\ roomPc = "handled"
    /\ lastMsg.type = "register"
    /\ lastMsg.publicKey = "u1"
    /\ closing # {}
    /\ users[lastFrom] = "u1"
    /\ \A c \in closing : users[c] = "none"

\* what the running call wrote to connection c
Received(c) == {d[2] : d \in {e \in delivered : e[1] = c}}

\* C40: the call that handles a transfer envelope writes one frame at most:
\* an error to the sending connection or the envelope to the connection of
\* the user it addresses.  A connection that is neither is written nothing, as in an
\* event in which no transfer takes place, and the call leaves the room's
\* state, from which every later write is computed, as it was.
C40_ThirdPeersSeeNothing ==
    /\ []((roomPc = "handled" /\ TransferEnvelope(lastMsg))
             => /\ Cardinality(delivered) <= 1
                /\ \A d \in delivered :
                       IF d[2].type = "error" THEN d[1] = lastFrom
                       ELSE d[1] = findUserById(Addressed(lastMsg))
                /\ \A c \in Conns \ {lastFrom} :
                       users[c] # Addressed(lastMsg) => Received(c) = {})
    /\ [][(roomPc = "received" /\ roomPc' = "handled"
              /\ TransferEnvelope(lastMsg))
             => UNCHANGED <<roomState, purgeTimers, registering>>]_vars

\* a chunk from connection 1 was forwarded to the connection of u2 while a
\* third connection, registered and open, was written nothing
C40_Witness ==
    /\ roomPc = "handled"
    /\ lastMsg.type = "realtimeFileChunk"
    /\ lastFrom = 1
    /\ users[1] = "u1"
    /\ \E c, t \in Conns \ {1} :
           /\ c # t
           /\ users[t] = "u2"
           /\ lastMsg.targetUserId = "u2"
           /\ Received(t) = {ChunkNotification(lastFrom, lastMsg)}
           /\ c \in sessions
           /\ Received(c) = {}

(***************************************************************************)
(* The end of a session (SpecLifecycle): FileTransferManager.ts with       *)
(* cancelTransfer on a payload of at most MaxLifeLen bytes, or the room    *)
(* with one registered connection that uploads through the stored path.    *)
(* The two share no variable.                                              *)
(***************************************************************************)
\* the fileComplete messages of the upload protocol
Completes ==
    {[Blank EXCEPT !.type = "fileComplete", !.fileId = f] : f \in FileIds}

SendFileComplete ==
    \E webSocket \in Conns, message \in Completes :
        /\ purgeTimers[message.fileId] < MaxPurgeTimers
        /\ SocketSend(webSocket, message)

\* the timer of handleFileComplete fires
PurgeTimer(f) ==
    /\ purgeTimers[f] > 0
    /\ purgeTimers' = [purgeTimers EXCEPT ![f] = @ - 1]
    /\ fileTransfers' = fileTransfers \ {f}
    /\ fileChunks' = [g \in DOMAIN fileChunks \ {f} |-> fileChunks[g]]
    /\ UNCHANGED <<users, sessions, roomPc, lastFrom, lastMsg, sendFails,
                   delivered, registering, closing>>
    /\ UNCHANGED notRelay

\* the client pair before a transfer and the room before an upload; in the
\* room a connection is open and registered
InitLifecycle ==
    /\ file \in Payloads(MaxLifeLen)
    /\ chunkSize = 1
    /\ IdleFT
    /\ aTotal = 0
    /\ IdleAck
    /\ IdleRc
    /\ IdleMock
    /\ \/ IdleRelay
       \/ /\ file = <<>>
          /\ users = [c \in Conns |-> IF c = 1 THEN "u1" ELSE "none"]
          /\ sessions = {1}
          /\ fileTransfers = {}
          /\ fileChunks = [f \in {} |-> {}]
          /\ roomPc = "idle"
          /\ lastFrom = 0
          /\ lastMsg = Blank
          /\ sendFails = FALSE
          /\ delivered = {}
          /\ purgeTimers = [f \in FileIds |-> 0]
          /\ registering = {}
          /\ closing = {}
    /\ ccTotal = 0
    /\ ccNetSpeed = 0
    /\ IdleConc
    /\ IdleOffer
    /\ IdleChunkAck

\* a step of the sending endpoint's run of startFileSending, or the digest
\* of a reassembly resolves
SessionStep ==
    \/ \E w \in Workers : WorkerLoop(w) \/ ReaderDone(w) \/ SendResolved(w)
    \/ AllSettled
    \/ HandleTransferResponse
    \/ DigestDone

NextLifecycle ==
    \/ InitiateFileTransfer
    \/ HandleTransferRequest
    \/ SessionStep
    \/ HandleTransferConfirmation
    \/ HandleFileChunk
    \/ CancelTransfer
    \/ ReceiverCancelTransfer
    \/ SendUpload
    \/ SendFileComplete
    \/ RoomMessage
    \/ EventDone
    \/ \E f \in FileIds : PurgeTimer(f)

\* the event loop of an endpoint runs a step that is due, and a timer that
\* was set fires
SpecLifecycle ==
    /\ InitLifecycle
    /\ [][NextLifecycle]_vars
    /\ WF_vars(SessionStep)
    /\ \A f \in FileIds : WF_vars(PurgeTimer(f))

\* C35: a session whose outcome was reported is eventually out of
\* activeTransfers; a confirmation handed to an endpoint without the send
\* session, and any step of the receiving endpoint without the receive
\* session other than a request or a digest that was awaited, changes
\* nothing of the session; a stored upload whose fileComplete was handled is
\* eventually purged, chunks included, by the timer set then.
C35_TerminalSessionsRemoved ==
    /\ (sComplete # <<>>) ~> ~sActive
    /\ (rComplete # <<>>) ~> ~rActive
    /\ \A f \in FileIds :
           (purgeTimers[f] > 0) ~> (f \notin fileTransfers
                                       /\ f \notin DOMAIN fileChunks)
    /\ [][/\ (~sActive /\ Len(confNet') < Len(confNet))
                 => UNCHANGED <<sPc, sActive, sStatus, sProgress, sComplete>>
          /\ (~rActive /\ reqNet' = reqNet /\ assembling' = assembling)
                 => UNCHANGED receiverVars
          /\ (roomPc = "received" /\ roomPc' = "handled"
                  /\ lastMsg.type = "fileComplete" /\ registered(lastFrom)
                  /\ lastMsg.fileId \in fileTransfers)
                 => purgeTimers'[lastMsg.fileId]
                        = purgeTimers[lastMsg.fileId] + 1]_vars

\* of two timers set for the upload f1 the first has fired and purged it
\* with its chunks: a chunk sent for it then finds no transfer
C35_Witness ==
    /\ purgeTimers["f1"] = 1
    /\ "f1" \notin fileTransfers
    /\ "f1" \notin DOMAIN fileChunks
    /\ roomPc = "handled"
    /\ lastMsg.type = "fileChunk"
    /\ \E d \in delivered : d[2].message = "File transfer not found"

(***************************************************************************)
(* ChatRoom.ts with handleRegister split at its await (SpecRegister): the   *)
(* close and error events of a connection are handled while               *)
(* extractUserProfile parses the key.                                      *)
(***************************************************************************)
\* handleRegister up to its await of extractUserProfile
RegisterBegin ==
    /\ roomPc = "received"
    /\ lastMsg.type = "register"
    /\ roomPc' = "handled"
    /\ IF lastMsg.publicKey \in {"undefined", "bad"}
       THEN /\ delivered' = handleRegister(lastFrom, lastMsg).out
            /\ UNCHANGED registering
       ELSE /\ Cardinality(registering) < MaxRegistering
            /\ registering' = registering \cup {<<lastFrom, lastMsg>>}
            /\ UNCHANGED delivered
    /\ UNCHANGED <<roomState, lastFrom, lastMsg, sendFails, purgeTimers,
                   closing>>
    /\ UNCHANGED notRelay

\* handleRegister after the await.  On a connection that was closed
\* meanwhile the user is set all the same; whether the write of the
\* 'registered' reply to the closed socket throws, which ends the call in
\* its catch, or not, which lets broadcastUserList run, is left open
RegisterResume ==
    /\ roomPc = "idle"
    /\ roomPc' = "handled"
    /\ \E r \in registering :
        /\ registering' = registering \ {r}
        /\ lastFrom' = r[1]
        /\ lastMsg' = r[2]
        /\ LET e == handleRegister(r[1], r[2])
               existing == {c \in Conns \ {r[1]} : users[c] = r[2].publicKey}
           IN  /\ users' = e.users
               /\ closing' = existing
               /\ IF r[1] \in sessions
                  THEN /\ sessions' = e.sessions
                       /\ delivered' = e.out
                  ELSE \E throws \in BOOLEAN :
                         /\ sessions' = IF throws THEN sessions
                                        ELSE sessions \ existing
                         /\ delivered' =
                                IF throws THEN {}
                                ELSE broadcast([Blank EXCEPT !.type = "userList"],
                                               sessions \ existing)
    /\ UNCHANGED <<fileTransfers, fileChunks, sendFails, purgeTimers>>
    /\ UNCHANGED notRelay

NextRegister ==
    \/ HandleSession
    \/ HandleDisconnect
    \/ SendRegister
    \/ RegisterBegin
    \/ RegisterResume
    \/ EventDone

SpecRegister == InitRelay /\ [][NextRegister]_vars

\* C38: every connection in users is in sessions, however the register
\* handler, suspended at its await, interleaves with the close or error
\* event of its connection.
C38_UsersAreSessions ==
    \A c \in Conns : users[c] # "none" => c \in sessions
====
